---- MODULE Spec2Model ----
(***************************************************************************)
(* A state-machine model of mini_agent.agent.Agent: the message history,   *)
(* the step loop of Agent.run(), cancellation cleanup and the compaction   *)
(* of the history (_summarize_messages).                                   *)
(*                                                                         *)
(* A text (str) is modelled as the sequence of its tokens, so that string  *)
(* concatenation and f-strings are \o, the empty string is << >> and the   *)
(* tokenizer's count is the length of the sequence.                        *)
(***************************************************************************)
EXTENDS Integers, Sequences, FiniteSets, TLC

\* ------------------------------------------------------------------ bounds
\* largest max_steps an Agent is constructed with
MaxSteps == 2
\* number of main-loop llm.generate calls over the life of the Agent
MaxCalls == 3
\* number of add_user_message() invocations on the Agent
MaxUsers == 2
\* the configured token_limit, scaled to the size of the modelled texts
TokenLimit == 40

\* per-message overhead of _estimate_tokens
MsgOverhead == 4

VARIABLES
    messages,               \* self.messages
    api_total_tokens,       \* self.api_total_tokens
    skip_next_token_check,  \* self._skip_next_token_check
    cancel_event,           \* self.cancel_event: "None", "unset" or "set"
    max_steps,              \* self.max_steps
    pc,                     \* position of run(): idle, step_start, await_llm, tool_exec, returned
    step,                   \* run()'s local step
    response,               \* run()'s local response (the last LLMResponse received)
    idx,                    \* position of the for loop over response.tool_calls
    result,                 \* what run() returned
    llm_calls,              \* history: main-loop llm.generate calls started by this run
    call_msgs,              \* history: self.messages as passed to the last llm.generate call
    saw_no_tool_calls,      \* history: this run received a response without tool_calls
    saw_failure,            \* history: a main-loop llm.generate call of this run raised
    total_calls,            \* history: main-loop llm.generate calls so far
    users,                  \* history: add_user_message() invocations so far
    in_flight,              \* history: positions in response.tool_calls of the tool calls being executed
    invoked,                \* history: tool.execute invocations of the step in progress
    tool_result,            \* history: the ToolResult of the tool call that just ended in the step in progress
    pre_msgs,               \* history: self.messages at the entry of the _summarize_messages call of the step
    pre_skip,               \* history: self._skip_next_token_check at that entry
    aux_res,                \* history: how the _create_summary calls of that pass ended
    last_usage,             \* history: total_tokens of the last main-loop response that reported usage
    objs,                   \* several Agent instances: the fields of each Agent object
    loops,                  \* several Agent instances: the run() coroutines and their locals
    runs,                   \* history: run() calls made on each Agent instance
    comp                    \* the objects of the component a specification is about

vars == <<messages, api_total_tokens, skip_next_token_check, cancel_event, max_steps,
          pc, step, response, idx, result, llm_calls, call_msgs, saw_no_tool_calls,
          saw_failure, total_calls, users, in_flight, invoked, tool_result,
          pre_msgs, pre_skip, aux_res, last_usage, objs, loops, runs, comp>>

\* the single agent of the run-loop actions
soloVars == <<messages, api_total_tokens, skip_next_token_check, cancel_event, max_steps,
              pc, step, response, idx, result, llm_calls, call_msgs, saw_no_tool_calls,
              saw_failure, total_calls, users, in_flight, invoked, tool_result,
              pre_msgs, pre_skip, aux_res, last_usage>>

\* the Agent instances that run side by side
pairVars == <<objs, loops, runs>>

\* the components around the agent: a specification is about one of them,
\* and comp holds the state of its objects under the component's name
compVars == <<comp>>
\* the interactive CLI: its turn loop and its Esc listener threads
cli == comp
\* the ACP adapter: one session and the turn running on it
acp == comp
\* the background shells: the manager's registries and the shell objects
shells == comp
\* the MCP loader: the connection registry and the connection objects
mcp == comp
\* a provider client converting a history
conv == comp

\* what the run loop of the single agent does not touch
sideVars == <<pairVars, compVars>>

toolVars == <<in_flight, invoked, tool_result>>

passVars == <<pre_msgs, pre_skip, aux_res>>

\* ---------------------------------------------------------------- messages
NoText == << >>

Message(role, content, thinking, tool_calls, tool_call_id, name) ==
    [role |-> role, content |-> content, thinking |-> thinking,
     tool_calls |-> tool_calls, tool_call_id |-> tool_call_id, name |-> name]

SystemPrompt == <<"system prompt">>

SystemMessage == Message("system", SystemPrompt, NoText, << >>, "", "")

UserMessage(content) == Message("user", content, NoText, << >>, "", "")

\* the text of the k-th add_user_message call
UserText(k) == <<"q", ToString(k)>>

ToolCall(id, name) == [id |-> id, name |-> name]

\* self.tools: the names of the registered tools
Tools == {"calc"}

\* ---------------------------------------------------------- the collaborators
\* usage: << >> is None, <<n>> is a TokenUsage with total_tokens = n
NoUsage == << >>
UsageLow == <<1>>
UsageHigh == <<TokenLimit + 1>>

LLMResponse(content, thinking, tool_calls, usage) ==
    [content |-> content, thinking |-> thinking, tool_calls |-> tool_calls, usage |-> usage]

NoResponse == LLMResponse(NoText, NoText, << >>, NoUsage)

\* what llm.generate may return to the main loop
Responses ==
    { LLMResponse(<<"4">>, NoText, << >>, NoUsage),
      LLMResponse(<<"The answer is 4">>, <<"hm">>, << >>, UsageHigh),
      LLMResponse(NoText, NoText, <<ToolCall("t1", "calc")>>, UsageLow),
      LLMResponse(<<"x">>, NoText, <<ToolCall("t1", "calc"), ToolCall("t2", "nosuch")>>, UsageHigh) }

\* what llm.generate may raise
Failures == {"RetryExhaustedError", "Exception"}

\* how tool.execute may end for a registered tool
ToolOutcomes == {"ok", "failed", "raise"}

\* how the auxiliary llm.generate call of _create_summary may end
AuxOutcomes == {"text", "empty", "raise"}

ToolResult(success, content, error) == [success |-> success, content |-> content, error |-> error]

NoToolResult == ToolResult(TRUE, NoText, NoText)

\* ------------------------------------------------------------ cancellation
\* faulty variant: the cancellation event is never consulted
CheckCancelledNever == FALSE

\* Agent._check_cancelled
CheckCancelled == cancel_event = "set"

\* index of the last assistant message of msgs, 0 when there is none
LastAssistantIdx(msgs) ==
    LET S == {i \in 1..Len(msgs) : msgs[i].role = "assistant"}
    IN  IF S = {} THEN 0 ELSE CHOOSE i \in S : \A j \in S : j <= i

\* faulty variant: the cleanup truncates after the last assistant message, not before it
CleanupKeepsAssistant(msgs) ==
    LET last_assistant_idx == LastAssistantIdx(msgs)
    IN  IF last_assistant_idx = 0 THEN msgs ELSE SubSeq(msgs, 1, last_assistant_idx)

\* faulty variant: the cleanup deletes the last assistant message alone
CleanupDropsOnlyAssistant(msgs) ==
    LET last_assistant_idx == LastAssistantIdx(msgs)
    IN  IF last_assistant_idx = 0 THEN msgs
        ELSE SubSeq(msgs, 1, last_assistant_idx - 1) \o SubSeq(msgs, last_assistant_idx + 1, Len(msgs))

\* Agent._cleanup_incomplete_messages: the history it leaves
CleanupIncompleteMessages(msgs) ==
    LET last_assistant_idx == LastAssistantIdx(msgs)
    IN  IF last_assistant_idx = 0 THEN msgs ELSE SubSeq(msgs, 1, last_assistant_idx - 1)

\* ---------------------------------------------------------- token estimate
\* str(msg.tool_calls)
RECURSIVE StrToolCalls(_)
StrToolCalls(tcs) ==
    IF tcs = << >> THEN << >> ELSE <<Head(tcs).id, Head(tcs).name>> \o StrToolCalls(Tail(tcs))

\* the tokens _estimate_tokens counts for one message
MessageTokens(msg) ==
    Len(msg.content) + Len(msg.thinking)
    + (IF msg.tool_calls # << >> THEN Len(StrToolCalls(msg.tool_calls)) ELSE 0)
    + MsgOverhead

\* Agent._estimate_tokens
RECURSIVE EstimateTokens(_)
EstimateTokens(msgs) ==
    IF msgs = << >> THEN 0 ELSE MessageTokens(Head(msgs)) + EstimateTokens(Tail(msgs))

\* ------------------------------------------------------------- compaction
\* ", ".join(tool_names)
RECURSIVE JoinNames(_)
JoinNames(tcs) ==
    IF tcs = << >> THEN << >>
    ELSE IF Len(tcs) = 1 THEN <<Head(tcs).name>>
    ELSE <<Head(tcs).name, ", ">> \o JoinNames(Tail(tcs))

\* the lines _create_summary writes for the messages of a round
RECURSIVE Transcript(_)
Transcript(msgs) ==
    IF msgs = << >> THEN << >>
    ELSE LET msg == Head(msgs)
             line == IF msg.role = "assistant"
                     THEN <<"Assistant: ">> \o msg.content \o <<"\n">>
                          \o (IF msg.tool_calls # << >>
                              THEN <<"  -> Called tools: ">> \o JoinNames(msg.tool_calls) \o <<"\n">>
                              ELSE << >>)
                     ELSE IF msg.role = "tool"
                     THEN <<"  <- Tool returned: ">> \o msg.content \o <<"...\n">>
                     ELSE << >>
         IN  line \o Transcript(Tail(msgs))

\* the text the auxiliary call answers with when it answers with a text
SummaryText == <<"summary">>

\* faulty variant: a raising auxiliary call leaves no summary text
CreateSummaryRaiseLosesRound(msgs, round_num, aux) ==
    IF msgs = << >> THEN NoText
    ELSE CASE aux = "text"  -> SummaryText
           [] aux = "empty" -> NoText
           [] aux = "raise" -> NoText

\* Agent._create_summary, aux being how its llm.generate call ends
CreateSummary(msgs, round_num, aux) ==
    IF msgs = << >> THEN NoText
    ELSE LET summary_content ==
                 <<"Round ", ToString(round_num), " execution process:\n\n">> \o Transcript(msgs)
         IN  CASE aux = "text"  -> SummaryText
               [] aux = "empty" -> NoText
               [] aux = "raise" -> summary_content

SummaryPrefix == "[Assistant Execution Summary]\n\n"

SummaryMessage(summary_text) == UserMessage(<<SummaryPrefix>> \o summary_text)

\* faulty variant: summary messages are not taken as round anchors
UserIndicesSkipsSummaries(msgs) ==
    LET F[i \in 0..Len(msgs)] ==
            IF i = 0 THEN << >>
            ELSE IF /\ msgs[i].role = "user" /\ i > 1
                    /\ ~(msgs[i].content # NoText /\ msgs[i].content[1] = SummaryPrefix)
                 THEN Append(F[i - 1], i) ELSE F[i - 1]
    IN  F[Len(msgs)]

\* user_indices of _summarize_messages (1-based; the system prompt is skipped)
UserIndices(msgs) ==
    LET F[i \in 0..Len(msgs)] ==
            IF i = 0 THEN << >>
            ELSE IF msgs[i].role = "user" /\ i > 1 THEN Append(F[i - 1], i) ELSE F[i - 1]
    IN  F[Len(msgs)]

\* execution_messages of the i-th round
ExecutionMessages(msgs, uis, i) ==
    LET next_user_idx == IF i < Len(uis) THEN uis[i + 1] ELSE Len(msgs) + 1
    IN  SubSeq(msgs, uis[i] + 1, next_user_idx - 1)

\* the rounds of msgs that have execution messages
ExecRounds(msgs) ==
    LET uis == UserIndices(msgs)
    IN  {i \in 1..Len(uis) : ExecutionMessages(msgs, uis, i) # << >>}

\* faulty variant: a round with execution messages keeps its summary only
RECURSIVE RebuildRoundsLosesUser(_, _, _, _, _)
RebuildRoundsLosesUser(msgs, uis, i, k, aux) ==
    IF i > Len(uis) THEN << >>
    ELSE LET execution_messages == ExecutionMessages(msgs, uis, i)
             has_exec == execution_messages # << >>
             k2 == IF has_exec THEN k + 1 ELSE k
             summary_text == IF has_exec THEN CreateSummary(execution_messages, i, aux[k2])
                             ELSE NoText
         IN  (IF has_exec /\ summary_text # NoText THEN <<SummaryMessage(summary_text)>>
              ELSE <<msgs[uis[i]]>>)
             \o RebuildRoundsLosesUser(msgs, uis, i + 1, k2, aux)

\* the for loop of _summarize_messages from round i on; k rounds have been
\* summarized so far and aux[k] is how the k-th _create_summary call ends
RECURSIVE RebuildRounds(_, _, _, _, _)
RebuildRounds(msgs, uis, i, k, aux) ==
    IF i > Len(uis) THEN << >>
    ELSE LET execution_messages == ExecutionMessages(msgs, uis, i)
             has_exec == execution_messages # << >>
             k2 == IF has_exec THEN k + 1 ELSE k
             summary_text == IF has_exec THEN CreateSummary(execution_messages, i, aux[k2])
                             ELSE NoText
         IN  <<msgs[uis[i]]>>
             \o (IF has_exec /\ summary_text # NoText THEN <<SummaryMessage(summary_text)>> ELSE << >>)
             \o RebuildRounds(msgs, uis, i + 1, k2, aux)

\* faulty variant: every check finds the budget exceeded
ShouldSummarizeAlways(msgs, api) == TRUE

\* faulty variant: the API-reported total is not consulted
ShouldSummarizeEstimateOnly(msgs, api) == EstimateTokens(msgs) > TokenLimit

\* should_summarize of _summarize_messages
ShouldSummarize(msgs, api) == EstimateTokens(msgs) > TokenLimit \/ api > TokenLimit

\* does _summarize_messages rebuild the history
Rebuilds(msgs, skip, api) ==
    ~skip /\ ShouldSummarize(msgs, api) /\ Len(UserIndices(msgs)) >= 1

\* faulty variant: the rebuilt history does not start with the system prompt
SummarizeMessagesDropsSystem(msgs, skip, api, aux) ==
    IF skip THEN [messages |-> msgs, skip |-> FALSE]
    ELSE IF ~ShouldSummarize(msgs, api) THEN [messages |-> msgs, skip |-> skip]
    ELSE IF Len(UserIndices(msgs)) < 1 THEN [messages |-> msgs, skip |-> skip]
    ELSE [messages |-> RebuildRounds(msgs, UserIndices(msgs), 1, 0, aux), skip |-> TRUE]

\* faulty variant: the skip flag is cleared but the check is made all the same
SummarizeMessagesNoSkip(msgs, skip, api, aux) ==
    IF ~ShouldSummarize(msgs, api) THEN [messages |-> msgs, skip |-> FALSE]
    ELSE IF Len(UserIndices(msgs)) < 1 THEN [messages |-> msgs, skip |-> FALSE]
    ELSE [messages |-> <<msgs[1]>> \o RebuildRounds(msgs, UserIndices(msgs), 1, 0,
                                                    [j \in 1..Len(msgs) |-> "text"]),
          skip |-> TRUE]

\* faulty variant: what precedes the first user message is carried over
SummarizeMessagesKeepsUnanchored(msgs, skip, api, aux) ==
    IF skip THEN [messages |-> msgs, skip |-> FALSE]
    ELSE IF ~ShouldSummarize(msgs, api) THEN [messages |-> msgs, skip |-> skip]
    ELSE IF Len(UserIndices(msgs)) < 1 THEN [messages |-> msgs, skip |-> skip]
    ELSE [messages |-> SubSeq(msgs, 1, UserIndices(msgs)[1] - 1)
                       \o RebuildRounds(msgs, UserIndices(msgs), 1, 0, aux),
          skip |-> TRUE]

\* Agent._summarize_messages: the history and the skip flag it leaves
SummarizeMessages(msgs, skip, api, aux) ==
    IF skip THEN [messages |-> msgs, skip |-> FALSE]
    ELSE IF ~ShouldSummarize(msgs, api) THEN [messages |-> msgs, skip |-> skip]
    ELSE IF Len(UserIndices(msgs)) < 1 THEN [messages |-> msgs, skip |-> skip]
    ELSE [messages |-> <<msgs[1]>> \o RebuildRounds(msgs, UserIndices(msgs), 1, 0, aux),
          skip |-> TRUE]

\* the _create_summary calls a pass over msgs makes
AuxCalls(msgs, skip, api) ==
    IF Rebuilds(msgs, skip, api) THEN Cardinality(ExecRounds(msgs)) ELSE 0

\* ------------------------------------------------------------- the run loop
NoResult == [kind |-> "none", content |-> NoText]

CancelMsg == <<"Task cancelled by user.">>

\* faulty variant: the assistant message is appended without the response's content
AssistantMessageNoContent(r) == Message("assistant", NoText, r.thinking, r.tool_calls, "", "")

\* the assistant message run() appends for a response
AssistantMessage(r) == Message("assistant", r.content, r.thinking, r.tool_calls, "", "")

\* error_msg of run() when llm.generate raises e
ErrorMsg(e) ==
    IF e = "RetryExhaustedError"
    THEN <<"LLM call failed after ", "attempts", " retries\nLast error: ", "last_exception">>
    ELSE <<"LLM call failed: ", "exception">>

\* error_msg of run() when the step ceiling is reached
MaxStepsMsg == <<"Task couldn't be completed after ", ToString(max_steps), " steps.">>

\* faulty variant: the name is not looked up, a missing tool fails like a raising one
ExecuteToolNoLookup(function_name, out) ==
    IF out = "ok" THEN ToolResult(TRUE, <<"4">>, NoText)
    ELSE IF out = "failed" THEN ToolResult(FALSE, NoText, <<"tool error">>)
    ELSE ToolResult(FALSE, NoText,
                    <<"Tool execution failed: ", "KeyError: name", "\n\nTraceback:\n", "traceback">>)

\* the ToolResult of a tool call: an unregistered name invokes nothing, and
\* out is how tool.execute ends for a registered one
ExecuteTool(function_name, out) ==
    IF function_name \notin Tools
    THEN ToolResult(FALSE, NoText, <<"Unknown tool: ", function_name>>)
    ELSE CASE out = "ok"     -> ToolResult(TRUE, <<"4">>, NoText)
           [] out = "failed" -> ToolResult(FALSE, NoText, <<"tool error">>)
           [] out = "raise"  -> ToolResult(FALSE, NoText,
                                    <<"Tool execution failed: ", "ValueError: boom",
                                      "\n\nTraceback:\n", "traceback">>)

\* faulty variant: the tool message carries the function name as its tool_call_id
ToolMessageNamedId(tool_call, res) ==
    Message("tool", IF res.success THEN res.content ELSE <<"Error: ">> \o res.error,
            NoText, << >>, tool_call.name, tool_call.name)

\* faulty variant: the tool message carries result.content whatever result.success is
ToolMessageErrorDropped(tool_call, res) ==
    Message("tool", res.content, NoText, << >>, tool_call.id, tool_call.name)

\* the tool message run() appends for a tool call and its result
ToolMessage(tool_call, res) ==
    Message("tool", IF res.success THEN res.content ELSE <<"Error: ">> \o res.error,
            NoText, << >>, tool_call.id, tool_call.name)

\* faulty variant: the outcome is recorded but run() does not return
ReturnKeepsRunning(kind, content) ==
    /\ result' = [kind |-> kind, content |-> content]
    /\ UNCHANGED pc

\* run() returns: kind names the return statement, content is the value
Return(kind, content) ==
    /\ pc' = "returned"
    /\ result' = [kind |-> kind, content |-> content]

\* the Agent instances that run side by side and the run() coroutines on them
Agents == {1, 2}

Loops == {1, 2}

\* the fields Agent.__init__ gives a new instance
NewAgent ==
    [messages |-> <<SystemMessage>>, api_total_tokens |-> 0,
     skip_next_token_check |-> FALSE, cancel_event |-> "None"]

\* a coroutine slot with no run() in it
NoLoop == [agent |-> 0, pc |-> "idle", step |-> 0, response |-> NoResponse, idx |-> 0]

\* every instance as constructed, no run() called yet
PairIdle ==
    /\ objs = [a \in Agents |-> NewAgent]
    /\ loops = [l \in Loops |-> NoLoop]
    /\ runs = [a \in Agents |-> 0]

\* no further Agent instance has been constructed
NoInstances ==
    /\ objs = << >>
    /\ loops = << >>
    /\ runs = << >>

\* no component around the agent has been set up
NoComponents ==
    /\ comp = << >>

\* the fields Agent.__init__ sets, and no run() called yet
Single ==
    /\ messages = <<SystemMessage>>
    /\ api_total_tokens = 0
    /\ last_usage = 0
    /\ skip_next_token_check = FALSE
    /\ cancel_event = "None"
    /\ max_steps \in 0..MaxSteps
    /\ pc = "idle"
    /\ step = 0
    /\ response = NoResponse
    /\ idx = 0
    /\ result = NoResult
    /\ llm_calls = 0
    /\ call_msgs = <<SystemMessage>>
    /\ saw_no_tool_calls = FALSE
    /\ saw_failure = FALSE
    /\ total_calls = 0
    /\ users = 0
    /\ in_flight = {}
    /\ invoked = 0
    /\ tool_result = NoToolResult
    /\ pre_msgs = << >>
    /\ pre_skip = FALSE
    /\ aux_res = << >>

\* Agent.__init__
Init == Single /\ NoInstances /\ NoComponents

\* no _summarize_messages call belongs to the state reached
NoPass ==
    /\ pre_msgs' = << >>
    /\ pre_skip' = FALSE
    /\ aux_res' = << >>

\* the frame of a finished run() and what it returned are gone
FrameGone ==
    /\ step' = 0
    /\ response' = NoResponse
    /\ idx' = 0
    /\ result' = NoResult
    /\ llm_calls' = 0
    /\ call_msgs' = << >>
    /\ saw_no_tool_calls' = FALSE
    /\ saw_failure' = FALSE
    /\ in_flight' = {}
    /\ invoked' = 0
    /\ tool_result' = NoToolResult
    /\ NoPass

\* Agent.add_user_message, called between runs
AddUserMessage ==
    /\ pc \in {"idle", "returned"}
    /\ users < MaxUsers
    /\ messages' = Append(messages, UserMessage(UserText(users + 1)))
    /\ users' = users + 1
    /\ pc' = "idle"
    /\ FrameGone
    /\ UNCHANGED <<api_total_tokens, last_usage, skip_next_token_check, cancel_event, max_steps, total_calls>>
    /\ UNCHANGED sideVars

\* run(cancel_event) up to the while loop; ev = "None" keeps self.cancel_event
RunStart(ev) ==
    /\ pc \in {"idle", "returned"}
    /\ total_calls + max_steps <= MaxCalls
    /\ cancel_event' = IF ev # "None" THEN ev ELSE cancel_event
    /\ pc' = "step_start"
    /\ FrameGone
    /\ UNCHANGED <<messages, api_total_tokens, last_usage, skip_next_token_check, max_steps, total_calls, users>>
    /\ UNCHANGED sideVars

\* faulty variant: the while loop runs one step too many
LoopConditionOffByOne == step <= max_steps

\* the condition of the while loop
LoopCondition == step < max_steps

\* the head of the while loop: the step ceiling, the step-start cancellation
\* checkpoint, _summarize_messages, and the start of the llm.generate call
StepStart ==
    /\ pc = "step_start"
    /\ IF ~LoopCondition
       THEN /\ Return("max_steps", MaxStepsMsg)
            /\ NoPass
            /\ UNCHANGED <<messages, skip_next_token_check, llm_calls, call_msgs, total_calls>>
       ELSE IF CheckCancelled
       THEN /\ messages' = CleanupIncompleteMessages(messages)
            /\ Return("cancelled", CancelMsg)
            /\ NoPass
            /\ UNCHANGED <<skip_next_token_check, llm_calls, call_msgs, total_calls>>
       ELSE \E aux \in [1..AuxCalls(messages, skip_next_token_check, api_total_tokens) -> AuxOutcomes] :
                LET s == SummarizeMessages(messages, skip_next_token_check, api_total_tokens, aux)
                IN  /\ messages' = s.messages
                    /\ skip_next_token_check' = s.skip
                    /\ call_msgs' = s.messages
                    /\ llm_calls' = llm_calls + 1
                    /\ total_calls' = total_calls + 1
                    /\ pc' = "await_llm"
                    /\ pre_msgs' = messages
                    /\ pre_skip' = skip_next_token_check
                    /\ aux_res' = aux
                    /\ UNCHANGED result
    /\ in_flight' = {}
    /\ invoked' = 0
    /\ tool_result' = NoToolResult
    /\ UNCHANGED <<api_total_tokens, last_usage, cancel_event, max_steps, step, response, idx,
                   saw_no_tool_calls, saw_failure, users>>
    /\ UNCHANGED sideVars

\* faulty variant: a raising llm.generate call is retried by the loop
GenerateRaiseRetries ==
    /\ pc = "await_llm"
    /\ pc' = "step_start"
    /\ saw_failure' = TRUE
    /\ UNCHANGED <<messages, api_total_tokens, last_usage, skip_next_token_check, cancel_event, max_steps,
                   step, response, idx, result, llm_calls, call_msgs, saw_no_tool_calls,
                   total_calls, users, toolVars, passVars>>
    /\ UNCHANGED sideVars

\* llm.generate raises
GenerateRaise ==
    /\ pc = "await_llm"
    /\ \E e \in Failures : Return("error", ErrorMsg(e))
    /\ saw_failure' = TRUE
    /\ NoPass
    /\ UNCHANGED <<messages, api_total_tokens, last_usage, skip_next_token_check, cancel_event, max_steps,
                   step, response, idx, llm_calls, call_msgs, saw_no_tool_calls, total_calls, users,
                   toolVars>>
    /\ UNCHANGED sideVars

\* faulty variant: the tool calls of a response are started together
StartToolGather(tool_calls, i) == i..Len(tool_calls)

\* the tool calls whose execution starts when the for loop reaches the i-th
StartTool(tool_calls, i) == {i}

\* the tool.execute invocations the i-th tool call makes
Invocations(tool_calls, i) == IF tool_calls[i].name \in Tools THEN 1 ELSE 0

\* faulty variant: the reported totals are summed over the responses
StoreUsageAccumulates(api, usage) == IF usage # NoUsage THEN api + usage[1] ELSE api

\* self.api_total_tokens after a response with this usage
StoreUsage(api, usage) == IF usage # NoUsage THEN usage[1] ELSE api

\* faulty variant: a response without tool_calls is final only when not cancelled
TaskCompleteUnlessCancelled(r) == r.tool_calls = << >> /\ ~CheckCancelled

\* run()'s test for the end of the task (if not response.tool_calls), made
\* before the post-response cancellation check
TaskComplete(r) == r.tool_calls = << >>

\* llm.generate returns r: the usage is stored, the assistant message appended,
\* and run() returns, is cancelled, or starts the first tool
GenerateReturn ==
    /\ pc = "await_llm"
    /\ \E r \in Responses :
        /\ response' = r
        /\ api_total_tokens' = StoreUsage(api_total_tokens, r.usage)
        /\ last_usage' = IF r.usage = NoUsage THEN last_usage ELSE r.usage[1]
        /\ saw_no_tool_calls' = (r.tool_calls = << >>)
        /\ IF TaskComplete(r)
           THEN /\ messages' = Append(messages, AssistantMessage(r))
                /\ Return("final", r.content)
                /\ UNCHANGED <<idx, in_flight, invoked>>
           ELSE IF CheckCancelled
           THEN /\ messages' = CleanupIncompleteMessages(Append(messages, AssistantMessage(r)))
                /\ Return("cancelled", CancelMsg)
                /\ UNCHANGED <<idx, in_flight, invoked>>
           ELSE /\ messages' = Append(messages, AssistantMessage(r))
                /\ idx' = 1
                /\ pc' = "tool_exec"
                /\ in_flight' = StartTool(r.tool_calls, 1)
                /\ invoked' = Invocations(r.tool_calls, 1)
                /\ UNCHANGED result
    /\ NoPass
    /\ UNCHANGED <<skip_next_token_check, cancel_event, max_steps, step, llm_calls, call_msgs,
                   saw_failure, total_calls, users, tool_result>>
    /\ UNCHANGED sideVars

\* faulty variant: the for loop stops after the first tool call
MoreToolCallsNone == FALSE

\* faulty variant: the for loop leaves out the last tool call
MoreToolCallsStopsEarly == idx + 1 < Len(response.tool_calls)

\* the for loop over response.tool_calls has a tool call after the idx-th
MoreToolCalls == idx < Len(response.tool_calls)

\* the tool call response.tool_calls[idx] ends: its tool message is appended,
\* then the cancellation checkpoint, then the next tool call or the next step
ToolReturn ==
    /\ pc = "tool_exec"
    /\ LET tool_call == response.tool_calls[idx]
       IN  \E out \in (IF tool_call.name \in Tools THEN ToolOutcomes ELSE {"unknown"}) :
             LET res == ExecuteTool(tool_call.name, out)
                 appended == Append(messages, ToolMessage(tool_call, res))
             IN  /\ IF CheckCancelled
                    THEN /\ messages' = CleanupIncompleteMessages(appended)
                         /\ Return("cancelled", CancelMsg)
                         /\ tool_result' = NoToolResult
                         /\ in_flight' = in_flight \ {idx}
                         /\ UNCHANGED <<idx, step, invoked>>
                    ELSE /\ messages' = appended
                         /\ tool_result' = res
                         /\ IF MoreToolCalls
                            THEN /\ idx' = idx + 1
                                 /\ in_flight' = (in_flight \ {idx}) \cup StartTool(response.tool_calls, idx + 1)
                                 /\ invoked' = invoked + Invocations(response.tool_calls, idx + 1)
                                 /\ UNCHANGED <<pc, step>>
                            ELSE /\ step' = step + 1
                                 /\ pc' = "step_start"
                                 /\ in_flight' = in_flight \ {idx}
                                 /\ UNCHANGED <<idx, invoked>>
                         /\ UNCHANGED result
    /\ UNCHANGED <<api_total_tokens, last_usage, skip_next_token_check, cancel_event, max_steps, response,
                   llm_calls, call_msgs, saw_no_tool_calls, saw_failure, total_calls, users,
                   passVars>>
    /\ UNCHANGED sideVars

\* faulty variant: setting the event aborts the call in flight (task.cancel())
CancelAborts ==
    /\ cancel_event = "unset"
    /\ cancel_event' = "set"
    /\ IF pc \in {"await_llm", "tool_exec"}
       THEN /\ Return("cancelled", CancelMsg)
            /\ messages' = call_msgs
            /\ in_flight' = {}
       ELSE UNCHANGED <<pc, result, messages, in_flight>>
    /\ UNCHANGED <<api_total_tokens, last_usage, skip_next_token_check, max_steps, step,
                   response, idx, llm_calls, call_msgs, saw_no_tool_calls, saw_failure,
                   total_calls, users, invoked, tool_result, passVars>>
    /\ UNCHANGED sideVars

\* an external actor sets the cancellation event (cancel_event.set())
Cancel ==
    /\ cancel_event = "unset"
    /\ cancel_event' = "set"
    /\ UNCHANGED <<messages, api_total_tokens, last_usage, skip_next_token_check, max_steps, pc, step,
                   response, idx, result, llm_calls, call_msgs, saw_no_tool_calls, saw_failure,
                   total_calls, users, toolVars, passVars>>
    /\ UNCHANGED sideVars

\* the caller drops the event after the run (agent.cancel_event = None)
ClearCancelEvent ==
    /\ pc = "returned"
    /\ cancel_event # "None"
    /\ cancel_event' = "None"
    /\ UNCHANGED <<messages, api_total_tokens, last_usage, skip_next_token_check, max_steps, pc, step,
                   response, idx, result, llm_calls, call_msgs, saw_no_tool_calls, saw_failure,
                   total_calls, users, toolVars, passVars>>
    /\ UNCHANGED sideVars

Next ==
    \/ AddUserMessage
    \/ \E ev \in {"None", "unset"} : RunStart(ev)
    \/ StepStart
    \/ GenerateRaise
    \/ GenerateReturn
    \/ ToolReturn
    \/ Cancel
    \/ ClearCancelEvent

Spec == Init /\ [][Next]_vars

\* The same agent and the same steps, under the names that the properties of
\* the message history and those of _summarize_messages are stated for.
HistorySpec == Init /\ [][Next]_vars

CompactionSpec == Init /\ [][Next]_vars

\* ------------------------------------------------- several Agent instances
\* bounds of the side-by-side check: gateway calls of all instances together,
\* and the max_steps every instance is constructed with
PairCalls == 3

PairSteps == 1

\* what llm.generate returns, how a tool call and an auxiliary call end
PairResponses ==
    { LLMResponse(<<"The answer is 4">>, <<"hm">>, << >>, UsageHigh),
      LLMResponse(NoText, NoText, <<ToolCall("t1", "calc")>>, UsageLow) }

PairToolOutcomes == {"ok"}

PairAuxOutcomes == {"text"}

\* faulty variant: every instance works on the fields of the first one
OwnShared(a) == 1

\* the object that holds the fields of instance a: __init__ creates the
\* message list, the counters and the flags anew for every instance
Own(a) == a

Fields(a) == objs[Own(a)]

SetFields(a, f) == objs' = [objs EXCEPT ![Own(a)] = f]

\* the coroutine in slot l goes on with the locals given
Goes(l, p, st, r, i) ==
    loops' = [loops EXCEPT ![l] = [agent |-> loops[l].agent, pc |-> p, step |-> st,
                                   response |-> r, idx |-> i]]

\* the coroutine in slot l returns
Returns(l) == loops' = [loops EXCEPT ![l] = NoLoop]

\* a user message arrives for instance a and a turn is started on it with a
\* fresh cancellation event: add_user_message(); run() of the CLI, prompt()
\* of the ACP adapter. Neither looks whether a turn is running on a. The
\* coroutine takes the first free slot.
PPrompt(l, a) ==
    /\ loops[l].agent = 0
    /\ \A k \in Loops : k < l => loops[k].agent # 0
    /\ (runs[1] + runs[2] + 1) * PairSteps <= PairCalls
    /\ runs' = [runs EXCEPT ![a] = @ + 1]
    /\ SetFields(a, [Fields(a) EXCEPT
                       !.messages = Append(@, UserMessage(UserText(runs[a] + 1))),
                       !.cancel_event = "unset"])
    /\ loops' = [loops EXCEPT ![l] = [agent |-> a, pc |-> "step_start", step |-> 0,
                                      response |-> NoResponse, idx |-> 0]]
    /\ UNCHANGED <<soloVars, compVars>>

\* the head of the while loop of the coroutine in slot l
PStepStart(l) ==
    /\ loops[l].pc = "step_start"
    /\ LET a == loops[l].agent
           f == Fields(a)
       IN  IF ~(loops[l].step < PairSteps)
           THEN /\ Returns(l)
                /\ UNCHANGED objs
           ELSE IF f.cancel_event = "set"
           THEN /\ SetFields(a, [f EXCEPT !.messages = CleanupIncompleteMessages(@)])
                /\ Returns(l)
           ELSE \E o \in PairAuxOutcomes :
                  LET sm == SummarizeMessages(f.messages, f.skip_next_token_check,
                                              f.api_total_tokens,
                                              [j \in 1..Len(f.messages) |-> o])
                  IN  /\ SetFields(a, [f EXCEPT !.messages = sm.messages,
                                                !.skip_next_token_check = sm.skip])
                      /\ Goes(l, "await_llm", loops[l].step, loops[l].response, loops[l].idx)
    /\ UNCHANGED <<runs, soloVars, compVars>>

\* the llm.generate call of the coroutine in slot l raises
PGenerateRaise(l) ==
    /\ loops[l].pc = "await_llm"
    /\ Returns(l)
    /\ UNCHANGED <<objs, runs, soloVars, compVars>>

\* the llm.generate call of the coroutine in slot l returns
PGenerateReturn(l) ==
    /\ loops[l].pc = "await_llm"
    /\ \E r \in PairResponses :
         LET a == loops[l].agent
             f == Fields(a)
             appended == Append(f.messages, AssistantMessage(r))
             api == StoreUsage(f.api_total_tokens, r.usage)
         IN  IF TaskComplete(r)
             THEN /\ SetFields(a, [f EXCEPT !.messages = appended, !.api_total_tokens = api])
                  /\ Returns(l)
             ELSE IF f.cancel_event = "set"
             THEN /\ SetFields(a, [f EXCEPT !.messages = CleanupIncompleteMessages(appended),
                                           !.api_total_tokens = api])
                  /\ Returns(l)
             ELSE /\ SetFields(a, [f EXCEPT !.messages = appended, !.api_total_tokens = api])
                  /\ Goes(l, "tool_exec", loops[l].step, r, 1)
    /\ UNCHANGED <<runs, soloVars, compVars>>

\* the tool call in progress in the coroutine in slot l ends
PToolReturn(l) ==
    /\ loops[l].pc = "tool_exec"
    /\ LET a == loops[l].agent
           f == Fields(a)
           tcs == loops[l].response.tool_calls
           tool_call == tcs[loops[l].idx]
       IN  \E out \in (IF tool_call.name \in Tools THEN PairToolOutcomes ELSE {"unknown"}) :
             LET appended == Append(f.messages,
                                    ToolMessage(tool_call, ExecuteTool(tool_call.name, out)))
             IN  IF f.cancel_event = "set"
                 THEN /\ SetFields(a, [f EXCEPT !.messages = CleanupIncompleteMessages(appended)])
                      /\ Returns(l)
                 ELSE /\ SetFields(a, [f EXCEPT !.messages = appended])
                      /\ IF loops[l].idx < Len(tcs)
                         THEN Goes(l, "tool_exec", loops[l].step, loops[l].response,
                                   loops[l].idx + 1)
                         ELSE Goes(l, "step_start", loops[l].step + 1, loops[l].response,
                                   loops[l].idx)
    /\ UNCHANGED <<runs, soloVars, compVars>>

\* the cancellation event of instance a is set
PCancel(a) ==
    /\ Fields(a).cancel_event = "unset"
    /\ SetFields(a, [Fields(a) EXCEPT !.cancel_event = "set"])
    /\ UNCHANGED <<loops, runs, soloVars, compVars>>

\* the instances as constructed; the single agent of Spec takes no step
PairInit == Single /\ max_steps = PairSteps /\ PairIdle /\ NoComponents

PairNext ==
    \/ \E l \in Loops, a \in Agents : PPrompt(l, a)
    \/ \E l \in Loops : PStepStart(l)
    \/ \E l \in Loops : PGenerateRaise(l)
    \/ \E l \in Loops : PGenerateReturn(l)
    \/ \E l \in Loops : PToolReturn(l)
    \/ \E a \in Agents : PCancel(a)

PairSpec == PairInit /\ [][PairNext]_vars

\* ------------------------------------------------------------------ claims
IsPrefix(a, b) == Len(a) <= Len(b) /\ SubSeq(b, 1, Len(a)) = a

\* index of the last assistant message before position j, 0 when there is none
\* the position of the last assistant message among msgs[1..j], 0 if none
RECURSIVE AssistantUpTo(_, _)
AssistantUpTo(msgs, j) ==
    IF j = 0 THEN 0
    ELSE IF msgs[j].role = "assistant" THEN j
    ELSE AssistantUpTo(msgs, j - 1)

\* the position of the last assistant message before msgs[j], 0 if none
AssistantBefore(msgs, j) == AssistantUpTo(msgs, j - 1)

ToolCallIds(msg) == {msg.tool_calls[k].id : k \in 1..Len(msg.tool_calls)}

\* C1: a run in which every response carried tool_calls, no gateway call
\* raised and no cancellation took effect has made exactly max_steps
\* main-loop gateway calls and returned the max-steps outcome; no run ever
\* starts more than max_steps main-loop gateway calls.
C1_ExactlyMaxSteps ==
    /\ llm_calls <= max_steps
    /\ (pc = "returned" /\ ~saw_no_tool_calls /\ ~saw_failure /\ result.kind # "cancelled")
         => (result.kind = "max_steps" /\ llm_calls = max_steps /\ step = max_steps)

C1_Witness ==
    /\ pc = "returned" /\ result.kind = "max_steps"
    /\ max_steps = 2 /\ llm_calls = 2
    /\ result.content = <<"Task couldn't be completed after ", "2", " steps.">>

\* C2: a main-loop response without tool_calls makes run() append exactly one
\* assistant message with the response's content and return that content in
\* the same step, with no tool started and no further gateway call.
C2_NoToolCallsReturnsContent ==
    [][(pc = "await_llm" /\ saw_no_tool_calls')
         => /\ messages' = Append(messages,
                   Message("assistant", response'.content, response'.thinking, << >>, "", ""))
            /\ pc' = "returned"
            /\ result' = [kind |-> "final", content |-> response'.content]
            /\ llm_calls' = llm_calls]_vars

C2_Witness ==
    /\ pc = "returned" /\ result = [kind |-> "final", content |-> <<"4">>]
    /\ llm_calls = 1
    /\ messages = <<SystemMessage, UserMessage(UserText(1)),
                    Message("assistant", <<"4">>, NoText, << >>, "", "")>>

\* C3: when a step has completed, what it appended to the history passed to
\* its gateway call is the assistant message followed by one tool message per
\* tool_call, in emission order, the i-th carrying the id and name of the i-th
\* tool_call; a run returning a final content after k completed steps has made
\* k + 1 gateway calls and appended that final assistant message last.
C3_StepAppendsInOrder ==
    /\ (pc = "step_start" /\ step > 0)
         => /\ Len(messages) = Len(call_msgs) + 1 + Len(response.tool_calls)
            /\ IsPrefix(call_msgs, messages)
            /\ messages[Len(call_msgs) + 1] =
                   Message("assistant", response.content, response.thinking,
                           response.tool_calls, "", "")
            /\ \A i \in 1..Len(response.tool_calls) :
                   LET m == messages[Len(call_msgs) + 1 + i]
                   IN  /\ m.role = "tool"
                       /\ m.tool_call_id = response.tool_calls[i].id
                       /\ m.name = response.tool_calls[i].name
    /\ (pc = "returned" /\ result.kind = "final")
         => /\ llm_calls = step + 1
            /\ messages = Append(call_msgs,
                   Message("assistant", result.content, response.thinking, << >>, "", ""))

C3_Witness ==
    /\ pc = "returned" /\ result = [kind |-> "final", content |-> <<"The answer is 4">>]
    /\ llm_calls = 2
    /\ messages = <<SystemMessage, UserMessage(UserText(1)),
                    Message("assistant", NoText, NoText, <<ToolCall("t1", "calc")>>, "", ""),
                    Message("tool", <<"4">>, NoText, << >>, "t1", "calc"),
                    Message("assistant", <<"The answer is 4">>, <<"hm">>, << >>, "", "")>>

\* C4: once a main-loop gateway call has raised, the run is over with the
\* error outcome and the history is the one the failing call was given: no
\* retry, no assistant or tool message, no tool.
C4_GatewayFailureIsFatal ==
    saw_failure => /\ pc = "returned"
                   /\ result.kind = "error"
                   /\ messages = call_msgs

C4_Witness ==
    /\ saw_failure /\ pc = "returned" /\ llm_calls = 2
    /\ result.content = <<"LLM call failed after ", "attempts", " retries\nLast error: ", "last_exception">>
    /\ Len(messages) >= 4

\* C5: a cancellation found at the step-start checkpoint leaves the history
\* as it was.
C5_StepStartCancelKeepsHistory ==
    [][(pc = "step_start" /\ LoopCondition /\ CheckCancelled) => messages' = messages]_vars

\* C6: a cancellation found after the assistant message of a step has been
\* appended (before the tools, or after a tool) leaves the history as it was
\* just before that assistant message was appended.
C6_MidStepCancelRestoresHistory ==
    [][(pc \in {"await_llm", "tool_exec"} /\ result'.kind = "cancelled")
         => (pc' = "returned" /\ messages' = call_msgs)]_vars

C6_Witness ==
    /\ pc = "returned" /\ result.kind = "cancelled"
    /\ Len(response.tool_calls) = 2 /\ idx = 1
    /\ step = 1
    /\ messages = call_msgs
    /\ Len(messages) >= 4

\* no assistant message with an unanswered tool_call, no tool message without
\* its assistant message
Answered(msgs) ==
    /\ \A i \in 1..Len(msgs) :
         msgs[i].role = "assistant" =>
           \A k \in 1..Len(msgs[i].tool_calls) :
             \E j \in (i + 1)..Len(msgs) :
               /\ msgs[j].role = "tool"
               /\ msgs[j].tool_call_id = msgs[i].tool_calls[k].id
               /\ AssistantBefore(msgs, j) = i
    /\ \A j \in 1..Len(msgs) :
         msgs[j].role = "tool" =>
           /\ AssistantBefore(msgs, j) # 0
           /\ msgs[j].tool_call_id \in ToolCallIds(msgs[AssistantBefore(msgs, j)])

\* C7: when run() has returned the cancellation outcome, every tool_call of
\* every assistant message of the history is answered by a tool message of
\* that assistant message, and every tool message has its assistant message.
C7_CancelledHistoryAnswered ==
    (pc = "returned" /\ result.kind = "cancelled") => Answered(messages)

C7_Witness ==
    /\ pc = "returned" /\ result.kind = "cancelled"
    /\ idx = 1 /\ Len(response.tool_calls) = 2
    /\ \E i \in 1..Len(messages) : messages[i].role = "tool"

\* C8: cancellation cleanup removes nothing but the messages of the step in
\* progress: the history it leaves extends the history as it was at the start
\* of the step (at the step-start checkpoint: the history as it is).
C8_CleanupRemovesOnlyStepInProgress ==
    [][(pc # "returned" /\ pc' = "returned" /\ result'.kind = "cancelled")
         => IsPrefix(IF pc = "step_start" THEN messages ELSE call_msgs, messages')]_vars

\* C9: the first message of the history is the system message created at
\* construction, in every reachable state.
C9_SystemMessageFirst ==
    Len(messages) >= 1 /\ messages[1] = SystemMessage

C9_Witness ==
    /\ pc = "returned" /\ result.kind = "cancelled"
    /\ skip_next_token_check
    /\ users = 2
    /\ Len(messages) < Len(call_msgs) + 1
    /\ messages[1] = SystemMessage

\* C10: every tool message of the history carries the id of a tool_call of the
\* most recent assistant message before it.
C10_ToolMessageMatchesLastAssistant ==
    \A j \in 1..Len(messages) :
        messages[j].role = "tool" =>
          LET a == AssistantBefore(messages, j)
          IN  /\ a # 0
              /\ \E k \in 1..Len(messages[a].tool_calls) :
                     messages[a].tool_calls[k].id = messages[j].tool_call_id

C10_Witness ==
    /\ pc = "tool_exec" /\ idx = 2 /\ step = 1
    /\ messages[Len(messages)].role = "tool"
    /\ messages[Len(messages)].tool_call_id = "t1"
    /\ \E j \in 1..Len(messages) : messages[j].role = "tool" /\ messages[j].tool_call_id = "t2"

\* the tool calls among the first n of tcs whose name is registered
RegisteredAmong(tcs, n) == {k \in 1..n : tcs[k].name \in Tools}

\* C11: at most one tool call of a run is being executed at any time; while
\* the i-th is, the assistant message and the tool messages of the calls
\* before it (and no other) have been appended, in order; and no tool call is
\* being executed while a gateway call is in flight.
C11_OneToolAtATime ==
    /\ Cardinality(in_flight) <= 1
    /\ pc = "await_llm" => in_flight = {}
    /\ in_flight # {} => pc = "tool_exec"
    /\ pc = "tool_exec" => in_flight = {idx}
    /\ \A i \in in_flight :
         /\ Len(messages) = Len(call_msgs) + i
         /\ \A k \in 1..(i - 1) :
              /\ messages[Len(call_msgs) + 1 + k].role = "tool"
              /\ messages[Len(call_msgs) + 1 + k].tool_call_id = response.tool_calls[k].id

C11_Witness ==
    /\ in_flight = {2} /\ pc = "tool_exec"
    /\ step = 1
    /\ messages[Len(messages)].tool_call_id = "t1"

\* C12: a tool_call whose name is not registered invokes no tool.execute, its
\* tool message is "Error: Unknown tool: <name>", and the run goes on with the
\* next tool_call or the next step.
C12_UnknownToolFailsInline ==
    /\ \A j \in 1..Len(messages) :
         (messages[j].role = "tool" /\ messages[j].name \notin Tools)
           => messages[j].content = <<"Error: ", "Unknown tool: ", messages[j].name>>
    /\ pc = "tool_exec"
         => invoked = Cardinality(RegisteredAmong(response.tool_calls, idx))
    /\ (pc = "step_start" /\ step > 0)
         => invoked = Cardinality(RegisteredAmong(response.tool_calls, Len(response.tool_calls)))
    /\ (tool_result.error # NoText /\ tool_result.error[1] = "Unknown tool: ")
         => /\ pc \in {"tool_exec", "step_start"}
            /\ tool_result = [success |-> FALSE, content |-> NoText,
                              error |-> <<"Unknown tool: ", messages[Len(messages)].name>>]
            /\ messages[Len(messages)].role = "tool"
            /\ messages[Len(messages)].name \notin Tools

C12_Witness ==
    /\ pc = "step_start" /\ step = 1
    /\ Len(response.tool_calls) = 2
    /\ invoked = 1
    /\ tool_result.error = <<"Unknown tool: ", "nosuch">>
    /\ messages[Len(messages)].content = <<"Error: ", "Unknown tool: ", "nosuch">>

\* C13: after a tool call has ended, failed or not, and unless the run was
\* cancelled, the run has not returned, the tool message of the call is the
\* last message, its content is the result's content on success and "Error: "
\* followed by the result's error otherwise, and the position of the run
\* (next tool call or next step) does not depend on the result.
C13_ToolFailureIsInline ==
    tool_result # NoToolResult
      => /\ pc \in {"tool_exec", "step_start"}
         /\ result = NoResult
         /\ messages[Len(messages)].role = "tool"
         /\ messages[Len(messages)].content =
                IF tool_result.success THEN tool_result.content
                ELSE <<"Error: ">> \o tool_result.error
         /\ pc = "tool_exec" => (idx > 1 /\ Len(messages) = Len(call_msgs) + idx)
         /\ pc = "step_start"
              => /\ idx = Len(response.tool_calls)
                 /\ Len(messages) = Len(call_msgs) + 1 + Len(response.tool_calls)

C13_Witness ==
    /\ pc = "tool_exec" /\ idx = 2
    /\ ~tool_result.success
    /\ tool_result.error[1] = "Tool execution failed: "
    /\ messages[Len(messages)].content =
           <<"Error: ", "Tool execution failed: ", "ValueError: boom", "\n\nTraceback:\n", "traceback">>

\* ---- compaction passes, seen in the state in which the pass has just ended
\* _summarize_messages has just been called by the step
PassDone == pc = "await_llm"

\* the pass has rebuilt the history (only a rebuilding pass leaves the flag set)
Rebuilt == PassDone /\ skip_next_token_check

\* the messages of msgs whose role is "user"
Users(msgs) == SelectSeq(msgs, LAMBDA m : m.role = "user")

IsSummary(m) == m.role = "user" /\ m.content # NoText /\ m.content[1] = SummaryPrefix

\* the user messages of msgs that are not summary messages
PlainUsers(msgs) == SelectSeq(msgs, LAMBDA m : m.role = "user" /\ ~IsSummary(m))

RECURSIVE IsSubseq(_, _)
IsSubseq(a, b) ==
    IF a = << >> THEN TRUE
    ELSE IF b = << >> THEN FALSE
    ELSE IF Head(a) = Head(b) THEN IsSubseq(Tail(a), Tail(b))
    ELSE IsSubseq(a, Tail(b))

\* C14 (as stated): after a compaction pass the user messages of the history
\* are unchanged in count, in content and in order.
C14_UserMessagesUnchanged ==
    PassDone => Users(messages) = Users(pre_msgs)

\* C14 (amended): after a compaction pass the user messages the history had
\* before the pass are all still there, unaltered and in the same order; the
\* only user-role messages the pass adds are summary messages, at most one for
\* each round that had execution messages.
C14_UserMessagesKept ==
    PassDone
      => /\ IsSubseq(Users(pre_msgs), Users(messages))
         /\ PlainUsers(messages) = PlainUsers(pre_msgs)
         /\ Len(Users(messages)) <= Len(Users(pre_msgs)) + Cardinality(ExecRounds(pre_msgs))

C14_Witness ==
    /\ Rebuilt
    /\ Len(Users(pre_msgs)) = 2
    /\ Len(Users(messages)) > Len(Users(pre_msgs))

\* C15 (as stated): when the token estimate of the history is below the limit,
\* the summarization check leaves the history unchanged.
C15_BelowEstimateNoOp ==
    (PassDone /\ EstimateTokens(pre_msgs) < TokenLimit) => messages = pre_msgs

\* C15 (amended): when neither the token estimate of the history nor the last
\* API-reported total_tokens exceeds the limit, the summarization check leaves
\* the history unchanged, and invoking it again leaves it unchanged again.
C15_WithinLimitsNoOp ==
    (PassDone /\ api_total_tokens <= TokenLimit /\ EstimateTokens(pre_msgs) <= TokenLimit)
      => /\ messages = pre_msgs
         /\ \A o \in AuxOutcomes :
              LET aux == [j \in 1..Len(messages) |-> o]
                  again == SummarizeMessages(messages, skip_next_token_check,
                                             api_total_tokens, aux)
              IN  /\ again.messages = messages
                  /\ SummarizeMessages(again.messages, again.skip,
                                       api_total_tokens, aux).messages = messages

C15_Witness ==
    /\ PassDone /\ ~pre_skip
    /\ api_total_tokens = 1
    /\ EstimateTokens(pre_msgs) <= TokenLimit
    /\ Len(messages) >= 5
    /\ messages = pre_msgs

\* C16: a pass whose check is not skipped rebuilds the history exactly when
\* the local estimate or the last API-reported total_tokens exceeds
\* token_limit (and the history has a user message to anchor a round).
C16_TriggerIsEstimateOrApi ==
    (PassDone /\ ~pre_skip)
      => IF api_total_tokens > TokenLimit \/ EstimateTokens(pre_msgs) > TokenLimit
         THEN Rebuilt <=> Len(UserIndices(pre_msgs)) >= 1
         ELSE ~Rebuilt /\ messages = pre_msgs

C16_Witness ==
    /\ Rebuilt /\ ~pre_skip
    /\ EstimateTokens(pre_msgs) <= TokenLimit
    /\ api_total_tokens > TokenLimit
    /\ messages # pre_msgs

C18_EveryExecRoundSummarized ==
    Rebuilt
      => /\ Len(messages) - (1 + Len(UserIndices(pre_msgs))) = Cardinality(ExecRounds(pre_msgs))
         /\ \A j \in 2..Len(messages) : messages[j].role = "user"

\* the number of the _create_summary call made for round i
\* C19: when the auxiliary call of a round raises, the pass still ends, the
\* round's user message is followed by a summary message whose text is the raw
\* transcript of the round, and the run goes on to its gateway call.
C19_AuxFailureFallsBack ==
    Rebuilt
      => LET uis == UserIndices(pre_msgs)
             rounds == ExecRounds(pre_msgs)
         IN  \A i \in rounds :
               aux_res[Cardinality({j \in rounds : j <= i})] = "raise"
                 => /\ result = NoResult
                    /\ \E p \in 2..(Len(messages) - 1) :
                         /\ messages[p] = pre_msgs[uis[i]]
                         /\ messages[p + 1] =
                              SummaryMessage(<<"Round ", ToString(i), " execution process:\n\n">>
                                             \o Transcript(ExecutionMessages(pre_msgs, uis, i)))

C19_Witness ==
    /\ Rebuilt
    /\ \E k \in DOMAIN aux_res : aux_res[k] = "raise"
    /\ IsSummary(messages[Len(messages)])
    /\ Len(messages[Len(messages)].content) > 4

\* position, in the rebuilt history, the user message of round i is due at
RoundPos(msgs, i) == 1 + i + Cardinality({j \in ExecRounds(msgs) : j < i})

\* C20: the history a pass rebuilds is the system message, then for each
\* round, in the original order, its user message followed immediately by its
\* summary message when the round had execution messages, and nothing else.
C20_RebuiltHistoryShape ==
    Rebuilt
      => LET uis == UserIndices(pre_msgs)
             ex == ExecRounds(pre_msgs)
         IN  /\ Len(messages) = 1 + Len(uis) + Cardinality(ex)
             /\ messages[1] = pre_msgs[1]
             /\ \A i \in 1..Len(uis) :
                  /\ messages[RoundPos(pre_msgs, i)] = pre_msgs[uis[i]]
                  /\ i \in ex => IsSummary(messages[RoundPos(pre_msgs, i) + 1])

RunInProgress == pc \in {"step_start", "await_llm", "tool_exec"}

C27_FinalResponseBeatsCancel ==
    [][(/\ pc = "await_llm" /\ pc' # "await_llm"
        /\ cancel_event = "set"
        /\ ~saw_failure' /\ response'.tool_calls = << >>)
         => /\ pc' = "returned"
            /\ result' = [kind |-> "final", content |-> response'.content]
            /\ Len(messages') = Len(messages) + 1
            /\ SubSeq(messages', 1, Len(messages)) = messages
            /\ messages'[Len(messages')] =
                 Message("assistant", response'.content, response'.thinking, << >>, "", "")]_vars

C27_Witness ==
    /\ pc = "returned" /\ result.kind = "final"
    /\ cancel_event = "set"
    /\ step = 1
    /\ messages[Len(messages)].role = "assistant"
    /\ messages[Len(messages)].content = result.content

\* C28: a rebuilding pass carries nothing over from between the system
\* message and the first user message: the rebuilt history goes from the
\* system message straight to the first user message and holds user-role
\* messages only, no more than one summary per round; a pass over a history
\* without user message changes nothing and leaves the skip flag unset.
C28_UnanchoredContentDiscarded ==
    /\ Rebuilt
         => LET uis == UserIndices(pre_msgs)
            IN  /\ uis # << >>
                /\ messages[1] = pre_msgs[1]
                /\ messages[2] = pre_msgs[uis[1]]
                /\ \A j \in 2..Len(messages) : messages[j].role = "user"
                /\ Len(messages) <= 1 + Len(uis) + Cardinality(ExecRounds(pre_msgs))
    /\ (PassDone /\ \A j \in 2..Len(pre_msgs) : pre_msgs[j].role # "user")
         => (messages = pre_msgs /\ ~skip_next_token_check)

C28_Witness ==
    /\ Rebuilt
    /\ UserIndices(pre_msgs) # << >>
    /\ UserIndices(pre_msgs)[1] > 2
    /\ pre_msgs[2].role = "assistant"
    /\ messages[2].role = "user"

\* C30: when run() has returned a final content, a gateway error or the
\* max-steps outcome, every assistant message with tool_calls of the history
\* is followed at once by one tool message per tool_call, in order, and by no
\* other tool message.
C30_ToolCallsAnsweredAtReturn ==
    (pc = "returned" /\ result.kind \in {"final", "error", "max_steps"})
      => \A i \in 1..Len(messages) :
           (messages[i].role = "assistant" /\ messages[i].tool_calls # << >>)
             => LET n == Len(messages[i].tool_calls)
                IN  /\ i + n <= Len(messages)
                    /\ \A k \in 1..n :
                         /\ messages[i + k].role = "tool"
                         /\ messages[i + k].tool_call_id = messages[i].tool_calls[k].id
                    /\ (i + n + 1 <= Len(messages)) => messages[i + n + 1].role # "tool"

C30_Witness ==
    /\ pc = "returned" /\ result.kind = "error"
    /\ step = 1
    /\ Len(messages) >= 4
    /\ messages[Len(messages) - 2].role = "assistant"
    /\ Len(messages[Len(messages) - 2].tool_calls) = 2

\* run() called while the gateway calls made so far leave room for a whole
\* run within MaxSteps calls (the liveness check explores fewer runs per history)
LiveRunStart(ev) ==
    /\ total_calls + max_steps <= MaxSteps
    /\ RunStart(ev)

LiveNext ==
    \/ AddUserMessage
    \/ \E ev \in {"None", "unset"} : LiveRunStart(ev)
    \/ StepStart
    \/ GenerateRaise
    \/ GenerateReturn
    \/ ToolReturn
    \/ Cancel
    \/ ClearCancelEvent

\* the scheduling run() relies on: the loop goes on by itself, and every
\* gateway call, tool call and auxiliary call (part of StepStart) ends
FairSpec ==
    /\ Init
    /\ [][LiveNext]_vars
    /\ WF_vars(StepStart)
    /\ WF_vars(GenerateReturn \/ GenerateRaise)
    /\ WF_vars(ToolReturn)

Outcomes == {"final", "cancelled", "error", "max_steps"}

\* C26: if every gateway call, tool call and auxiliary call ends, every run()
\* returns, with exactly one of the four outcomes and after at most max_steps
\* main-loop gateway calls.
C26_RunTerminates ==
    /\ [](llm_calls <= max_steps)
    /\ []((pc = "returned") <=> (result.kind \in Outcomes))
    /\ (RunInProgress ~> (pc = "returned"))

C26_Witness ==
    /\ pc = "returned" /\ result.kind = "max_steps"
    /\ max_steps = 2 /\ llm_calls = 2
    /\ Len(response.tool_calls) = 2
    /\ users = 2

\* ---- an agent whose history has been compacted before
\* the history a compaction pass leaves of one round with two tool calls,
\* aux being how the auxiliary call of that pass ended
LateHistory(aux) ==
    LET r == LLMResponse(<<"x">>, NoText, <<ToolCall("t1", "calc"), ToolCall("t2", "nosuch")>>,
                         UsageHigh)
        msgs == <<SystemMessage, UserMessage(UserText(1)), AssistantMessage(r),
                  ToolMessage(r.tool_calls[1], ExecuteTool("calc", "ok")),
                  ToolMessage(r.tool_calls[2], ExecuteTool("nosuch", "unknown"))>>
    IN  SummarizeMessages(msgs, FALSE, UsageHigh[1], <<aux>>).messages

\* the agent between runs, its last run having compacted the history at the
\* head of its second step and then ended on a gateway failure; the gateway
\* call of that run's first step counts in total_calls
LateInit ==
    /\ \E aux \in {"text", "raise"} : messages = LateHistory(aux)
    /\ api_total_tokens = UsageHigh[1]
    /\ last_usage = UsageHigh[1]
    /\ skip_next_token_check = TRUE
    /\ cancel_event = "None"
    /\ max_steps \in 0..MaxSteps
    /\ pc = "idle"
    /\ step = 0
    /\ response = NoResponse
    /\ idx = 0
    /\ result = NoResult
    /\ llm_calls = 0
    /\ call_msgs = << >>
    /\ saw_no_tool_calls = FALSE
    /\ saw_failure = FALSE
    /\ total_calls = 1
    /\ users = 1
    /\ in_flight = {}
    /\ invoked = 0
    /\ tool_result = NoToolResult
    /\ pre_msgs = << >>
    /\ pre_skip = FALSE
    /\ aux_res = << >>
    /\ NoInstances
    /\ NoComponents

LateSpec == LateInit /\ [][Next]_vars

\* the summary messages of msgs, in order
Summaries(msgs) == SelectSeq(msgs, IsSummary)

\* C29: a pass keeps every summary message that earlier passes created,
\* unaltered and in place, and the summary messages it creates come after them
C29_SummariesAccumulate ==
    PassDone =>
        /\ IsPrefix(Summaries(pre_msgs), Summaries(messages))
        /\ \A i \in 1..Len(pre_msgs) :
               IsSummary(pre_msgs[i]) => \E j \in 1..Len(messages) :
                   /\ messages[j] = pre_msgs[i]
                   /\ Users(SubSeq(messages, 1, j)) = Users(SubSeq(pre_msgs, 1, i))

\* a rebuilding pass over a history that holds a summary message adds one
C29_Witness ==
    /\ Rebuilt
    /\ Summaries(pre_msgs) # << >>
    /\ Len(Summaries(messages)) = Len(Summaries(pre_msgs)) + 1
    /\ Len(pre_msgs) > Len(messages)

\* ---- Agent instances side by side: what one does to the other
\* the coroutine in slot l is between the start and the return of its run()
InTurn(l) == loops[l].agent # 0

\* the coroutine in slot l has a gateway call or a tool call in flight
InFlight(l) == loops[l].pc \in {"await_llm", "tool_exec"}

\* C24: a step, a compaction pass or a cancellation of one instance changes
\* the history, the stored usage, the skip flag and the cancellation flag of
\* that instance only
C24_InstancesIsolated ==
    [][ /\ \A a, b \in Agents :
               (Fields(a)' # Fields(a) /\ Fields(b)' # Fields(b)) => a = b
        /\ \A b \in Agents :
               (Fields(b)' # Fields(b) /\ loops' # loops) =>
                   \E l \in Loops : /\ loops'[l] # loops[l]
                                    /\ b \in {loops[l].agent, loops'[l].agent}
        /\ \A l \in Loops :
               loops'[l] # loops[l] => \A k \in Loops \ {l} : loops'[k] = loops[k] ]_vars

\* two instances in the middle of their turns, one just compacted and one
\* cancelled, each with the history of its own turns
C24_Witness ==
    /\ loops[1].agent = 1 /\ loops[2].agent = 2
    /\ loops[1].pc = "await_llm" /\ Fields(1).skip_next_token_check
    /\ loops[2].pc = "tool_exec" /\ Fields(2).cancel_event = "set"
    /\ Fields(1).cancel_event = "unset"
    /\ Fields(1).api_total_tokens = UsageHigh[1] /\ Fields(2).api_total_tokens = UsageLow[1]
    /\ Len(Fields(1).messages) = 4 /\ Len(Fields(2).messages) = 3

\* C25: no two coroutines have gateway calls or tool calls in flight on the
\* history of the same instance
C25_OneLoopPerAgent ==
    \A l, k \in Loops :
        (l # k /\ InTurn(l) /\ loops[l].agent = loops[k].agent) => ~(InFlight(l) /\ InFlight(k))

\* ------------------------------------------------------ the interactive CLI
\* bound: the user turns of a CLI session
CliTurns == 2

\* a listener thread that has not been started
NoThread == [pc |-> "unborn", esc_turn |-> 0]

\* the CLI before the first input. pos: at the prompt or running a turn;
\* turn: the turns started; stop: esc_listener_stop (the object the name is
\* bound to now) is set; threads: the Esc listener thread of each turn, with
\* the turn in which it read an Esc; src (history): the turn in which the Esc
\* was pressed that set the event the name cancel_event is bound to now
CliIdle ==
    cli = [pos |-> "prompt", turn |-> 0, stop |-> FALSE, src |-> 0,
           threads |-> [k \in 1..CliTurns |-> NoThread]]

\* what the CLI and its threads do not touch
cliFar == <<pairVars>>

\* one pass of the input loop up to create_task(agent.run()): the user
\* message, a new Event bound to cancel_event and given to the agent, a new
\* esc_listener_stop and esc_cancelled, the listener thread started
CliTurnStart ==
    /\ cli.pos = "prompt"
    /\ pc \in {"idle", "returned"}
    /\ cli.turn < CliTurns
    /\ total_calls + max_steps <= MaxCalls
    /\ messages' = Append(messages, UserMessage(UserText(users + 1)))
    /\ users' = users + 1
    /\ cancel_event' = "unset"
    /\ pc' = "step_start"
    /\ FrameGone
    /\ cli' = [cli EXCEPT !.pos = "running", !.turn = @ + 1, !.stop = FALSE, !.src = 0,
                          !.threads[cli.turn + 1] = [pc |-> "loop", esc_turn |-> 0]]
    /\ UNCHANGED <<api_total_tokens, last_usage, skip_next_token_check, max_steps, total_calls>>
    /\ UNCHANGED cliFar

\* listener thread k evaluates `while not esc_listener_stop.is_set()`: the
\* name is looked up in the enclosing scope when the test is made
ListenerCheck(k) ==
    /\ cli.threads[k].pc = "loop"
    /\ cli' = [cli EXCEPT !.threads[k].pc = IF cli.stop THEN "done" ELSE "select"]
    /\ UNCHANGED <<soloVars, cliFar>>

\* listener thread k waits for a key: none within the timeout, or an Esc
\* pressed while a turn is running
ListenerSelect(k) ==
    /\ cli.threads[k].pc = "select"
    /\ \/ cli' = [cli EXCEPT !.threads[k].pc = "loop"]
       \/ /\ cli.pos = "running"
          /\ cli' = [cli EXCEPT !.threads[k] = [pc |-> "saw_esc", esc_turn |-> cli.turn]]
    /\ UNCHANGED <<soloVars, cliFar>>

\* listener thread k, having read an Esc: esc_cancelled[0] = True;
\* cancel_event.set(); break. Both names are looked up in the enclosing scope
\* now: during a turn cancel_event is the event the agent holds, between turns
\* it is the event of the turn that ended
ListenerSet(k) ==
    /\ cli.threads[k].pc = "saw_esc"
    /\ IF cli.pos = "running"
       THEN /\ cancel_event' = "set"
            /\ cli' = [cli EXCEPT !.threads[k].pc = "done",
                                  !.src = IF cancel_event = "set" THEN @
                                          ELSE cli.threads[k].esc_turn]
       ELSE /\ cli' = [cli EXCEPT !.threads[k].pc = "done"]
            /\ UNCHANGED cancel_event
    /\ UNCHANGED <<messages, api_total_tokens, last_usage, skip_next_token_check, max_steps, pc,
                   step, response, idx, result, llm_calls, call_msgs, saw_no_tool_calls,
                   saw_failure, total_calls, users, toolVars, passVars>>
    /\ UNCHANGED cliFar

\* agent_task is done: the finally clause (agent.cancel_event = None,
\* esc_listener_stop.set(), esc_thread.join(timeout=0.2), which returns
\* whether or not the thread has ended)
CliTurnEnd ==
    /\ cli.pos = "running"
    /\ pc = "returned"
    /\ cancel_event' = "None"
    /\ cli' = [cli EXCEPT !.pos = "prompt", !.stop = TRUE]
    /\ UNCHANGED <<messages, api_total_tokens, last_usage, skip_next_token_check, max_steps, pc,
                   step, response, idx, result, llm_calls, call_msgs, saw_no_tool_calls,
                   saw_failure, total_calls, users, toolVars, passVars>>
    /\ UNCHANGED cliFar

CliInit ==
    /\ Single
    /\ NoInstances
    /\ CliIdle

CliNext ==
    \/ CliTurnStart
    \/ StepStart
    \/ GenerateRaise
    \/ GenerateReturn
    \/ ToolReturn
    \/ \E k \in 1..CliTurns : ListenerCheck(k)
    \/ \E k \in 1..CliTurns : ListenerSelect(k)
    \/ \E k \in 1..CliTurns : ListenerSet(k)
    \/ CliTurnEnd

CliSpec == CliInit /\ [][CliNext]_vars

\* C31: at the prompt the agent holds no event; a running turn holds an event
\* that is unset unless an Esc pressed during this very turn has set it
C31_EscStaysInTurn ==
    /\ cli.pos = "prompt" => cancel_event = "None"
    /\ cli.pos = "running" => cancel_event # "None"
    /\ (cli.pos = "running" /\ cancel_event = "set") => cli.src = cli.turn

\* ---------------------------------------------------------------------
\* ACP adapter (acp/__init__.py): one session of MiniMaxACPAgent.  The
\* handlers are coroutines of one event loop, so cancel() runs only while
\* a turn is suspended in an await: generate, a tool execution, a _send.
\* ---------------------------------------------------------------------
AcpSteps == 2
AcpTools == 2
AcpCalls == 3

\* What one turn did, recorded beside the program's state.
AcpQuiet == [calls |-> 0, raised |-> FALSE, plain |-> FALSE, found |-> FALSE,
             with_calls |-> 0, heard |-> FALSE, late_tools |-> 0, late_calls |-> 0]

acpFar == <<soloVars, pairVars>>

AcpMessage(role, content) == [role |-> role, content |-> content]

\* faulty variant: the flag is tested before the range.
AcpLoopHeadCancelFirst(a) ==
    IF a.cancelled
    THEN [a EXCEPT !.pos = "idle", !.stop = "cancelled", !.turn.found = TRUE]
    ELSE IF a.step = a.max_steps
         THEN [a EXCEPT !.pos = "idle", !.stop = "max_turn_requests"]
         ELSE [a EXCEPT !.pos = "generating", !.step = @ + 1, !.turn.calls = @ + 1,
                        !.total = @ + 1,
                        !.turn.late_calls = IF a.turn.heard THEN @ + 1 ELSE @]

\* The head of `for _ in range(agent.max_steps)`: the range is tested
\* first, then state.cancelled, then generate is awaited.
AcpLoopHead(a) ==
    IF a.step = a.max_steps
    THEN [a EXCEPT !.pos = "idle", !.stop = "max_turn_requests"]
    ELSE IF a.cancelled
         THEN [a EXCEPT !.pos = "idle", !.stop = "cancelled", !.turn.found = TRUE]
         ELSE [a EXCEPT !.pos = "generating", !.step = @ + 1, !.turn.calls = @ + 1,
                        !.total = @ + 1,
                        !.turn.late_calls = IF a.turn.heard THEN @ + 1 ELSE @]

AcpNewSession ==
    /\ ~acp.session
    /\ acp' = [acp EXCEPT !.session = TRUE, !.cancelled = FALSE,
                          !.messages = <<AcpMessage("system", "prompt")>>]
    /\ UNCHANGED acpFar

\* prompt(): an unknown session is created on the way; the flag is
\* cleared, the user message appended and _run_turn entered, all before
\* the first await.  A turn is started while the model calls it may make
\* fit in AcpCalls.
AcpPrompt ==
    /\ acp.pos = "idle"
    /\ acp.total + acp.max_steps <= AcpCalls
    /\ LET base == IF acp.session THEN acp.messages
                   ELSE <<AcpMessage("system", "prompt")>>
       IN acp' = AcpLoopHead([acp EXCEPT
                     !.session = TRUE, !.cancelled = FALSE,
                     !.messages = Append(base, AcpMessage("user", "text")),
                     !.turns = @ + 1, !.step = 0, !.pending = 0,
                     !.stop = "none", !.turn = AcpQuiet])
    /\ UNCHANGED acpFar

AcpCancel ==
    /\ acp' = IF acp.session
              THEN [acp EXCEPT !.cancelled = TRUE,
                               !.turn.heard = @ \/ acp.pos # "idle"]
              ELSE acp
    /\ UNCHANGED acpFar

AcpGenerateRaise ==
    /\ acp.pos = "generating"
    /\ acp' = [acp EXCEPT !.pos = "idle", !.stop = "refusal", !.turn.raised = TRUE]
    /\ UNCHANGED acpFar

AcpGenerateReturn ==
    /\ acp.pos = "generating"
    /\ \E n \in 0..AcpTools :
         acp' = IF n = 0
                THEN [acp EXCEPT !.messages = Append(@, AcpMessage("assistant", "text")),
                                 !.pos = "idle", !.stop = "end_turn",
                                 !.turn.plain = TRUE]
                ELSE [acp EXCEPT !.messages = Append(@, AcpMessage("assistant", "calls")),
                                 !.pos = "tools", !.pending = n,
                                 !.turn.with_calls = @ + 1]
    /\ UNCHANGED acpFar

\* One pass of `for call in response.tool_calls`: the tool is looked up
\* and executed, its text appended; after the last call the loop head
\* follows without an await.
AcpToolReturn ==
    /\ acp.pos = "tools"
    /\ LET done == [acp EXCEPT !.messages = Append(@, AcpMessage("tool", "result")),
                               !.pending = @ - 1,
                               !.turn.late_tools = IF acp.turn.heard THEN @ + 1 ELSE @]
       IN acp' = IF done.pending = 0 THEN AcpLoopHead(done) ELSE done
    /\ UNCHANGED acpFar

AcpInit ==
    /\ Single /\ NoInstances
    /\ \E m \in 1..AcpSteps :
         /\ max_steps = m
         /\ acp = [session |-> FALSE, max_steps |-> m, cancelled |-> FALSE,
                   pos |-> "idle", step |-> 0, pending |-> 0, stop |-> "none",
                   messages |-> << >>, turns |-> 0, total |-> 0, turn |-> AcpQuiet]

AcpNext ==
    \/ AcpNewSession
    \/ AcpPrompt
    \/ AcpCancel
    \/ AcpGenerateRaise
    \/ AcpGenerateReturn
    \/ AcpToolReturn

AcpSpec == AcpInit /\ [][AcpNext]_vars

AcpEnded == acp.pos = "idle" /\ acp.turns > 0

\* C32: an ACP turn makes at most max_steps model calls and ends with
\* exactly one stop reason: "end_turn" iff a response carried no tool
\* calls, "refusal" iff a model call raised, "cancelled" iff the flag was
\* found set at a step start, "max_turn_requests" iff max_steps
\* consecutive responses all carried tool calls.
C32_AcpStopReason ==
    /\ acp.turn.calls <= acp.max_steps
    /\ AcpEnded =>
         /\ acp.stop \in {"end_turn", "refusal", "cancelled", "max_turn_requests"}
         /\ acp.stop = "end_turn" <=> acp.turn.plain
         /\ acp.stop = "refusal" <=> acp.turn.raised
         /\ acp.stop = "cancelled" <=> acp.turn.found
         /\ acp.stop = "max_turn_requests" <=> acp.turn.with_calls = acp.max_steps
    /\ ~AcpEnded => acp.stop = "none"

C32_Witness ==
    /\ AcpEnded
    /\ acp.stop = "max_turn_requests"
    /\ acp.cancelled
    /\ acp.max_steps = AcpSteps

\* C33: once cancel() has been received while a turn is running, the turn
\* starts no further tool execution and no further model call, and ends
\* with stop reason "cancelled".
C33_AcpCancelStopsTurn ==
    acp.turn.heard =>
        /\ acp.turn.late_tools = 0
        /\ acp.turn.late_calls = 0
        /\ AcpEnded => acp.stop = "cancelled"

\* ---------------------------------------------------------------------
\* Background shells (tools/bash_tool.py): BackgroundShell objects, the
\* class-level registry and monitor tasks of BackgroundShellManager, and
\* the bash_output / bash_kill tools.  Everything runs on one event loop:
\* a coroutine is interleaved with the others only at its awaits.
\* ---------------------------------------------------------------------
ShellIds == 1
MaxLines == 2
ShellCalls == 3

\* The tools are called ShellCalls times at most.  Ids are the ids that
\* bash (run_in_background) hands out; UnknownId is never one.
Ids == 1..ShellIds
UnknownId == 0
Lines == {"a", "b"}
\* filter_str: none, a pattern that matches the lines holding "a", a
\* string that is no regular expression.
Filters == {"None", "a", "("}

shellFar == <<soloVars, pairVars>>

\* BackgroundShell.__init__, with the process and the coroutines that
\* work on the shell: mon is the monitor task, term the terminate() call.
NewShell == [made |-> TRUE, output_lines |-> << >>, last_read_index |-> 0,
             status |-> "running", exit_code |-> "None", returncode |-> "None",
             mon |-> "reading", term |-> "none", got |-> << >>, asked |-> "None"]
NoShell == [NewShell EXCEPT !.made = FALSE, !.status = "none", !.mon = "none"]
NoBashResult == [tool |-> "none", bash_id |-> UnknownId, success |-> TRUE, raised |-> FALSE]

\* pattern.search(line) of the compiled filter.
Search(pattern, line) == pattern = line

RECURSIVE Keep(_, _, _)
\* [i for i in from..to if the filter keeps line i]
Keep(lines, from, filter) ==
    IF from > Len(lines) THEN << >>
    ELSE IF filter \in {"None", "("} \/ Search(filter, lines[from])
         THEN <<from>> \o Keep(lines, from + 1, filter)
         ELSE Keep(lines, from + 1, filter)

\* faulty variant: the cursor moves by the number of lines returned.
GetNewOutputCountsReturned(sh, filter) ==
    [sh EXCEPT !.last_read_index = @ + Len(Keep(sh.output_lines, sh.last_read_index + 1, filter)),
               !.asked = filter,
               !.got = @ \o Keep(sh.output_lines, sh.last_read_index + 1, filter)]

\* BackgroundShell.get_new_output: the cursor moves to the end of the
\* list, the filter is applied to the lines taken.  got lists the
\* positions of the lines handed out so far, asked is the filter of the
\* latest call.
GetNewOutput(sh, filter) ==
    [sh EXCEPT !.last_read_index = Len(sh.output_lines),
               !.asked = filter,
               !.got = @ \o Keep(sh.output_lines, sh.last_read_index + 1, filter)]

\* BackgroundShell.update_status(is_alive=False, exit_code)
UpdateStatus(sh, rc) ==
    [sh EXCEPT !.status = IF rc = "0" THEN "completed" ELSE "failed",
               !.exit_code = rc]

\* BashTool.execute(run_in_background=True): process created, shell
\* added, monitor task created and registered.  Ids are handed out in
\* order.
BashStart(i) ==
    /\ ~shells.obj[i].made
    /\ shells.calls < ShellCalls
    /\ \A j \in 1..(i - 1) : shells.obj[j].made
    /\ shells' = [shells EXCEPT !.obj[i] = NewShell,
                                !.calls = @ + 1,
                                !.registry = @ \cup {i},
                                !.tasks = @ \cup {i},
                                !.result = [tool |-> "bash", bash_id |-> i,
                                            success |-> TRUE, raised |-> FALSE]]
    /\ UNCHANGED shellFar

RECURSIVE LinesUpTo(_, _)
\* Lines added so far to the shells 1..i.
LinesUpTo(sd, i) ==
    IF i = 0 THEN 0 ELSE Len(sd.obj[i].output_lines) + LinesUpTo(sd, i - 1)

\* monitor(): a line read from the pipe is added to the shell, while the
\* shells together hold fewer than MaxLines lines.
MonitorLine(i) ==
    /\ shells.obj[i].mon = "reading"
    /\ shells.obj[i].returncode = "None"
    /\ LinesUpTo(shells, ShellIds) < MaxLines
    /\ \E line \in Lines :
         shells' = [shells EXCEPT !.obj[i].output_lines = Append(@, line)]
    /\ UNCHANGED shellFar

\* The process ends by itself or by the signal terminate() sent.
ProcessExits(i) ==
    /\ shells.obj[i].made
    /\ shells.obj[i].returncode = "None"
    /\ \E rc \in {"0", "1"} :
         shells' = [shells EXCEPT !.obj[i].returncode = rc]
    /\ UNCHANGED shellFar

\* monitor(): the loop is left, the exit code awaited, the status
\* updated; finally the task takes itself out of _monitor_tasks.
MonitorEnds(i) ==
    /\ shells.obj[i].mon = "reading"
    /\ shells.obj[i].returncode # "None"
    /\ shells' = [shells EXCEPT
                    !.obj[i] = [UpdateStatus(@, @.returncode) EXCEPT !.mon = "done"],
                    !.tasks = @ \ {i}]
    /\ UNCHANGED shellFar

\* monitor(): task.cancel() raises CancelledError at the await the task
\* is suspended in; no except clause of monitor() takes it, the finally
\* clause runs.  This is what happens in sleep and in process.wait(), and
\* in wait_for while the read is pending.
MonitorCancelled(i) ==
    /\ shells.obj[i].mon = "cancelled"
    /\ shells' = [shells EXCEPT !.obj[i].mon = "stopped", !.tasks = @ \ {i}]
    /\ UNCHANGED shellFar

\* monitor() cancelled inside asyncio.wait_for(process.stdout.readline(),
\* timeout=0.1) when the read has completed and the task has not been
\* resumed yet: wait_for (Python 3.11, the first version that has the
\* asyncio.timeout this package uses) returns the result of the read and
\* the CancelledError is dropped.  The line, if the read gave one, is
\* added and the loop goes on; the task will not be cancelled again.
MonitorReadSurvives(i) ==
    /\ shells.obj[i].mon = "cancelled"
    /\ \/ /\ LinesUpTo(shells, ShellIds) < MaxLines
          /\ \E line \in Lines :
               shells' = [shells EXCEPT !.obj[i].output_lines = Append(@, line),
                                        !.obj[i].mon = "reading"]
       \/ shells' = [shells EXCEPT !.obj[i].mon = "reading"]
    /\ UNCHANGED shellFar

\* _cancel_monitor: a registered task that is not done is cancelled, the
\* entry deleted.
CancelMonitor(sh, registered) ==
    IF registered /\ sh.mon = "reading" THEN [sh EXCEPT !.mon = "cancelled"] ELSE sh

\* BackgroundShell.terminate after its await, then _cancel_monitor and
\* _remove of BackgroundShellManager.terminate, which has no further
\* await.
Terminated(sd, i) ==
    [sd EXCEPT !.obj[i] = [CancelMonitor(@, i \in sd.tasks) EXCEPT
                              !.status = "terminated",
                              !.exit_code = sd.obj[i].returncode,
                              !.term = "returned"],
               !.tasks = @ \ {i},
               !.registry = @ \ {i}]

\* bash_output on a registered shell.
BashOutput(i) ==
    /\ i \in shells.registry
    /\ shells.calls < ShellCalls
    /\ \E filter \in Filters :
         shells' = [shells EXCEPT
                      !.obj[i] = GetNewOutput(@, filter),
                      !.calls = @ + 1,
                      !.result = [tool |-> "bash_output", bash_id |-> i,
                                  success |-> TRUE, raised |-> FALSE]]
    /\ UNCHANGED shellFar

\* bash_output on an id the registry does not hold.
BashOutputUnknown(i) ==
    /\ i \notin shells.registry
    /\ shells.calls < ShellCalls
    /\ shells' = [shells EXCEPT
                    !.calls = @ + 1,
                    !.result = [tool |-> "bash_output", bash_id |-> i,
                                success |-> FALSE, raised |-> FALSE]]
    /\ UNCHANGED shellFar

\* bash_kill on a registered shell, up to the await in
\* BackgroundShell.terminate: the remaining output is taken; a process
\* that has not ended is sent the signal and awaited, otherwise the call
\* runs to its end.
BashKill(i) ==
    /\ i \in shells.registry
    /\ shells.calls < ShellCalls
    /\ shells.obj[i].term = "none"
    /\ LET taken == [shells EXCEPT !.obj[i] = GetNewOutput(@, "None"),
                                   !.calls = @ + 1]
       IN shells' = IF shells.obj[i].returncode = "None"
                    THEN [taken EXCEPT !.obj[i].term = "waiting"]
                    ELSE [Terminated(taken, i) EXCEPT
                            !.result = [tool |-> "bash_kill", bash_id |-> i,
                                        success |-> TRUE, raised |-> FALSE]]
    /\ UNCHANGED shellFar

\* bash_kill resumed: the process has ended, or the five seconds are
\* over and it is killed without being awaited.
BashKillReturns(i) ==
    /\ shells.obj[i].term = "waiting"
    /\ shells' = [Terminated(shells, i) EXCEPT
                    !.result = [tool |-> "bash_kill", bash_id |-> i,
                                success |-> TRUE, raised |-> FALSE]]
    /\ UNCHANGED shellFar

\* faulty variant: the ValueError of terminate leaves execute.
BashKillUnknownRaises(i) ==
    /\ i \notin shells.registry
    /\ shells.calls < ShellCalls
    /\ shells' = [shells EXCEPT
                    !.calls = @ + 1,
                    !.result = [tool |-> "bash_kill", bash_id |-> i,
                                success |-> FALSE, raised |-> TRUE]]
    /\ UNCHANGED shellFar

\* bash_kill on an id the registry does not hold: terminate raises
\* ValueError, which execute turns into a failed result.
BashKillUnknown(i) ==
    /\ i \notin shells.registry
    /\ shells.calls < ShellCalls
    /\ shells' = [shells EXCEPT
                    !.calls = @ + 1,
                    !.result = [tool |-> "bash_kill", bash_id |-> i,
                                success |-> FALSE, raised |-> FALSE]]
    /\ UNCHANGED shellFar

ShellInit ==
    /\ Single /\ max_steps = 1 /\ NoInstances
    /\ shells = [registry |-> {}, tasks |-> {}, obj |-> [i \in Ids |-> NoShell],
                 calls |-> 0, result |-> NoBashResult]

ShellNext ==
    \/ \E i \in Ids : BashStart(i)
    \/ \E i \in Ids : MonitorLine(i)
    \/ \E i \in Ids : ProcessExits(i)
    \/ \E i \in Ids : MonitorEnds(i)
    \/ \E i \in Ids : MonitorCancelled(i)
    \/ \E i \in Ids : MonitorReadSurvives(i)
    \/ \E i \in Ids : BashOutput(i)
    \/ \E i \in Ids \cup {UnknownId} : BashOutputUnknown(i)
    \/ \E i \in Ids : BashKill(i)
    \/ \E i \in Ids : BashKillReturns(i)
    \/ \E i \in Ids \cup {UnknownId} : BashKillUnknown(i)

ShellSpec == ShellInit /\ [][ShellNext]_vars

\* The positions a call handed out: what got gained in the step.
Gained(o, n) == SubSeq(n.got, Len(o.got) + 1, Len(n.got))

\* C34: a get_new_output call consumes every line produced before it;
\* the lines it returns are lines not consumed before, in production
\* order, and without a filter they are all of them: each line is
\* returned by one call at most, and a line a filter dropped is never
\* returned by a later call.
C34_OutputCursor ==
    [][\A i \in Ids :
         LET o == shells.obj[i]
             n == shells'.obj[i]
         IN (o.made /\ (n.got # o.got \/ n.last_read_index # o.last_read_index)) =>
              /\ n.last_read_index = Len(o.output_lines)
              /\ Len(n.got) >= Len(o.got)
              /\ SubSeq(n.got, 1, Len(o.got)) = o.got
              /\ \A k \in 1..Len(Gained(o, n)) :
                    /\ Gained(o, n)[k] \in (o.last_read_index + 1)..Len(o.output_lines)
                    /\ k > 1 => Gained(o, n)[k - 1] < Gained(o, n)[k]
              /\ n.asked = "None" =>
                    Gained(o, n) = [k \in 1..(Len(o.output_lines) - o.last_read_index)
                                       |-> o.last_read_index + k]]_vars

C34_Witness ==
    \E i \in Ids :
        /\ shells.obj[i].output_lines = <<"b", "a">>
        /\ shells.obj[i].got = <<2>>
        /\ shells.obj[i].last_read_index = 2
        /\ shells.obj[i].asked = "None"

\* C35: after terminate(bash_id) has returned, the shell is not in the
\* registry, no monitor task is registered for it and its status is
\* "terminated", whatever the monitor task does afterwards.
C35_TerminatedStays ==
    \A i \in Ids :
        shells.obj[i].term = "returned" =>
            /\ i \notin shells.registry
            /\ i \notin shells.tasks
            /\ shells.obj[i].status = "terminated"

\* C36: bash_output or bash_kill with a bash_id the registry does not
\* hold returns a failed result without raising and leaves the registry,
\* the monitor tasks and every shell as they were.
C36_UnknownIdLeavesState ==
    [][(/\ shells'.result # shells.result
        /\ shells'.result.tool \in {"bash_output", "bash_kill"}
        /\ shells'.result.bash_id \notin shells.registry) =>
           /\ ~shells'.result.success
           /\ ~shells'.result.raised
           /\ shells'.registry = shells.registry
           /\ shells'.tasks = shells.tasks
           /\ shells'.obj = shells.obj]_vars

C36_Witness ==
    /\ shells.result.tool = "bash_kill"
    /\ ~shells.result.success
    /\ shells.result.bash_id \in Ids
    /\ shells.obj[shells.result.bash_id].term = "returned"

\* ---------------------------------------------------------------------
\* MCP loader (tools/mcp_loader.py): MCPServerConnection objects, the
\* module-level list _mcp_connections, load_mcp_tools_async,
\* cleanup_mcp_connections and MCPTool.execute.
\* ---------------------------------------------------------------------
McpConns == 2
McpTools == 1

\* Connection objects are numbered in the order they are constructed.
Conns == 1..McpConns
\* An entry of "mcpServers": a server that passes validation, one that is
\* disabled, a value that is no JSON object.
Entries == {"valid", "disabled", "malformed"}
Configs == UNION {[1..n -> Entries] : n \in 1..McpConns}
\* How connect() goes: it succeeds with some tools; it fails before the
\* session is entered; it fails in initialize() or list_tools(); closing
\* the exit stack in the handler raises.
ConnectOutcomes == {"ok", "early", "late", "aclose_raises"}

mcpFar == <<soloVars, pairVars>>

\* MCPServerConnection.__init__
NewConnection == [exit_stack |-> "None", session |-> "None", tools |-> << >>,
                  connected |-> "not called"]
NoLoad == [pos |-> "idle", todo |-> << >>, all_tools |-> << >>, registered |-> << >>]
NoReturn == [done |-> FALSE, returned |-> << >>, registered |-> << >>]
NoCall == [kind |-> "none", success |-> TRUE, error |-> "None", raised |-> FALSE]

\* The tools list_tools reported, wrapped: n tools of connection c.
Wrapped(c, n) == [k \in 1..n |-> [conn |-> c, idx |-> k]]

\* MCPServerConnection.connect
Connect(c, outcome, n) ==
    CASE outcome = "ok" ->
           [exit_stack |-> "open", session |-> "set", tools |-> Wrapped(c, n),
            connected |-> "True"]
      [] outcome = "early" ->
           [exit_stack |-> "None", session |-> "None", tools |-> << >>,
            connected |-> "False"]
      [] outcome = "late" ->
           [exit_stack |-> "None", session |-> "set", tools |-> << >>,
            connected |-> "False"]
      [] OTHER ->
           [exit_stack |-> "open", session |-> "None", tools |-> << >>,
            connected |-> "raised"]

\* MCPServerConnection.disconnect
Disconnect(cn) ==
    IF cn.exit_stack # "None"
    THEN [cn EXCEPT !.exit_stack = "None", !.session = "None"]
    ELSE cn

\* What session.call_tool does: it returns a result (content a list of
\* items or not, isError true, false or missing), it does not return in
\* time, it raises.
CallOutcomes ==
    [kind : {"returns"}, content_ok : BOOLEAN, isError : {"True", "False", "missing"}]
    \cup {[kind |-> "timeout", content_ok |-> TRUE, isError |-> "missing"],
          [kind |-> "raises", content_ok |-> TRUE, isError |-> "missing"]}

\* faulty variant: the clause for Exception comes first and takes the
\* TimeoutError too.
ExecuteGenericFirst(o) ==
    IF o.kind \in {"timeout", "raises"} \/ ~o.content_ok
    THEN [kind |-> o.kind, success |-> FALSE, error |-> "failed", raised |-> FALSE]
    ELSE IF o.isError = "True"
         THEN [kind |-> o.kind, success |-> FALSE, error |-> "Tool returned error",
               raised |-> FALSE]
         ELSE [kind |-> o.kind, success |-> TRUE, error |-> "None", raised |-> FALSE]

\* MCPTool.execute
Execute(o) ==
    IF o.kind = "timeout"
    THEN [kind |-> o.kind, success |-> FALSE, error |-> "timed out", raised |-> FALSE]
    ELSE IF o.kind = "raises" \/ ~o.content_ok
         THEN [kind |-> o.kind, success |-> FALSE, error |-> "failed", raised |-> FALSE]
         ELSE IF o.isError = "True"
              THEN [kind |-> o.kind, success |-> FALSE, error |-> "Tool returned error",
                    raised |-> FALSE]
              ELSE [kind |-> o.kind, success |-> TRUE, error |-> "None", raised |-> FALSE]

\* load_mcp_tools_async up to the loop over the servers; a connection
\* object will be made for every valid entry.
LoadStart ==
    /\ mcp.load.pos = "idle"
    /\ \E config \in Configs :
         /\ mcp.made + Cardinality({k \in DOMAIN config : config[k] = "valid"}) <= McpConns
         /\ mcp' = [mcp EXCEPT !.load = [pos |-> "loop", todo |-> config,
                                         all_tools |-> << >>, registered |-> << >>],
                               !.last = NoReturn]
    /\ UNCHANGED mcpFar

\* The load has returned tools: the loop is over, or an exception left it.
LoadReturns(m, tools) ==
    [m EXCEPT !.load = NoLoad,
              !.last = [done |-> TRUE, returned |-> tools,
                        registered |-> m.load.registered]]

\* One pass of the loop over mcpServers; after the last entry, or when an
\* exception is raised, the load returns.
LoadServer ==
    /\ mcp.load.pos = "loop"
    /\ LET entry == Head(mcp.load.todo)
           rest == [mcp EXCEPT !.load.todo = Tail(@)]
           c == mcp.made + 1
           Next1(m) == IF m.load.todo = << >> THEN LoadReturns(m, m.load.all_tools) ELSE m
       IN CASE entry = "disabled" -> mcp' = Next1(rest)
            [] entry = "malformed" -> mcp' = LoadReturns(rest, << >>)
            [] OTHER ->
                 \E outcome \in ConnectOutcomes, n \in 0..McpTools :
                    LET cn == Connect(c, outcome, n)
                        made == [rest EXCEPT !.made = c, !.conn[c] = cn]
                    IN mcp' =
                         CASE outcome = "ok" ->
                                Next1([made EXCEPT
                                         !.registry = Append(@, c),
                                         !.live = @ \cup {c},
                                         !.load.registered = Append(@, c),
                                         !.load.all_tools = @ \o cn.tools])
                           [] outcome = "aclose_raises" -> LoadReturns(made, << >>)
                           [] OTHER -> Next1(made)
    /\ UNCHANGED mcpFar

\* cleanup_mcp_connections
Cleanup ==
    /\ mcp.load.pos = "idle"
    /\ mcp' = [mcp EXCEPT
                 !.conn = [c \in Conns |->
                             IF \E k \in DOMAIN mcp.registry : mcp.registry[k] = c
                             THEN Disconnect(mcp.conn[c]) ELSE mcp.conn[c]],
                 !.cleaned = @ \cup {mcp.registry[k] : k \in DOMAIN mcp.registry},
                 !.live = {},
                 !.registry = << >>]
    /\ UNCHANGED mcpFar

\* A tool of a connection is executed; a session that was closed does
\* not answer.
McpExecute ==
    /\ \E c \in Conns, o \in CallOutcomes :
         /\ mcp.conn[c].tools # << >>
         /\ mcp.conn[c].exit_stack = "None" => o.kind # "returns"
         /\ mcp' = [mcp EXCEPT !.call = Execute(o), !.asked = o]
    /\ UNCHANGED mcpFar

McpInit ==
    /\ Single /\ max_steps = 1 /\ NoInstances
    /\ mcp = [registry |-> << >>, conn |-> [c \in Conns |-> NewConnection],
              made |-> 0, load |-> NoLoad, last |-> NoReturn,
              live |-> {}, cleaned |-> {},
              call |-> NoCall,
              asked |-> [kind |-> "none", content_ok |-> TRUE, isError |-> "missing"]]

McpNext ==
    \/ LoadStart
    \/ LoadServer
    \/ Cleanup
    \/ McpExecute

McpSpec == McpInit /\ [][McpNext]_vars

\* C37: MCPTool.execute never raises: a timeout gives a failed result
\* that reports the timeout, any other exception a failed result, and a
\* result of the server gives success = not isError.
C37_ExecuteNeverRaises ==
    mcp.asked.kind # "none" =>
        /\ ~mcp.call.raised
        /\ mcp.asked.kind = "timeout" =>
              ~mcp.call.success /\ mcp.call.error = "timed out"
        /\ mcp.asked.kind = "raises" =>
              ~mcp.call.success /\ mcp.call.error # "timed out"
        /\ (mcp.asked.kind = "returns" /\ mcp.asked.content_ok) =>
              mcp.call.success = (mcp.asked.isError # "True")

C37_Witness ==
    /\ mcp.asked.kind = "timeout"
    /\ ~mcp.call.success
    /\ \E c \in Conns : mcp.conn[c].tools # << >> /\ mcp.conn[c].exit_stack = "open"

RECURSIVE ToolsOf(_, _)
\* The tools of the connections listed, in order.
ToolsOf(m, ids) ==
    IF ids = << >> THEN << >>
    ELSE m.conn[Head(ids)].tools \o ToolsOf(m, Tail(ids))

\* C38: the registry holds exactly the connections whose connect()
\* succeeded since the last cleanup; the tools a load returns are the
\* tools of the connections that load registered; after a cleanup the
\* registry is empty and every connection it held has exit_stack None
\* and session None.
C38_RegistryMatchesConnections ==
    /\ {mcp.registry[k] : k \in DOMAIN mcp.registry} = mcp.live
    /\ Cardinality(mcp.live) = Len(mcp.registry)
    /\ mcp.last.done => mcp.last.returned = ToolsOf(mcp, mcp.last.registered)
    /\ \A c \in mcp.cleaned :
          /\ c \notin mcp.live
          /\ mcp.conn[c].exit_stack = "None"
          /\ mcp.conn[c].session = "None"

\* C39: after connect() has returned False the connection has
\* exit_stack None, session None and no tools.
C39_FailedConnectLeavesNothing ==
    \A c \in Conns :
        mcp.conn[c].connected = "False" =>
            /\ mcp.conn[c].exit_stack = "None"
            /\ mcp.conn[c].session = "None"
            /\ mcp.conn[c].tools = << >>

\* ---------------------------------------------------------------------
\* Provider clients (llm/anthropic_client.py, llm/openai_client.py):
\* _convert_messages, applied to message lists of ConvLen messages at
\* most.
\* ---------------------------------------------------------------------
ConvLen == 3

CallIds == {"c1", "c2"}
\* ToolCall(id, function = FunctionCall(name, arguments))
Call(id) == [id |-> id, name |-> "tool", arguments |-> "dict"]
CallLists == {<< >>, <<Call("c1")>>, <<Call("c1"), Call("c2")>>}

\* Message(role, content, thinking, tool_calls, tool_call_id, name)
ConvMessages ==
    [role : {"system", "user"}, content : {"text"}, thinking : {""},
     tool_calls : {<< >>}, tool_call_id : {""}, name : {""}]
    \cup [role : {"assistant"}, content : {"", "text"}, thinking : {"", "thought"},
          tool_calls : CallLists, tool_call_id : {""}, name : {""}]
    \cup [role : {"tool"}, content : {"text"}, thinking : {""},
          tool_calls : {<< >>}, tool_call_id : CallIds, name : {"tool"}]

Histories == UNION {[1..n -> ConvMessages] : n \in 0..ConvLen}

convFar == <<soloVars, pairVars>>

\* A content block of the Anthropic format.
Block(type, id, text) == [type |-> type, id |-> id, text |-> text]

\* json.dumps(tool_call.function.arguments)
Dumps(arguments) == <<"json", arguments>>

\* faulty variant: the tool result carries the tool's name for its id.
AnthropicEntryNamesTool(msg) ==
    IF msg.role = "assistant" /\ (msg.thinking # "" \/ msg.tool_calls # << >>)
    THEN [role |-> "assistant", content |-> "",
          blocks |-> (IF msg.thinking # "" THEN <<Block("thinking", "", msg.thinking)>>
                      ELSE << >>)
                     \o (IF msg.content # "" THEN <<Block("text", "", msg.content)>>
                         ELSE << >>)
                     \o [k \in 1..Len(msg.tool_calls) |->
                           Block("tool_use", msg.tool_calls[k].id, msg.tool_calls[k].name)]]
    ELSE IF msg.role = "tool"
         THEN [role |-> "user", content |-> "",
               blocks |-> <<Block("tool_result", msg.name, msg.content)>>]
         ELSE [role |-> msg.role, content |-> msg.content, blocks |-> << >>]

\* AnthropicClient._convert_messages, one message that is no system
\* message.
AnthropicEntry(msg) ==
    IF msg.role = "assistant" /\ (msg.thinking # "" \/ msg.tool_calls # << >>)
    THEN [role |-> "assistant", content |-> "",
          blocks |-> (IF msg.thinking # "" THEN <<Block("thinking", "", msg.thinking)>>
                      ELSE << >>)
                     \o (IF msg.content # "" THEN <<Block("text", "", msg.content)>>
                         ELSE << >>)
                     \o [k \in 1..Len(msg.tool_calls) |->
                           Block("tool_use", msg.tool_calls[k].id, msg.tool_calls[k].name)]]
    ELSE IF msg.role = "tool"
         THEN [role |-> "user", content |-> "",
               blocks |-> <<Block("tool_result", msg.tool_call_id, msg.content)>>]
         ELSE [role |-> msg.role, content |-> msg.content, blocks |-> << >>]

RECURSIVE AnthropicMessages(_)
\* AnthropicClient._convert_messages: api_messages
AnthropicMessages(history) ==
    IF history = << >> THEN << >>
    ELSE IF Head(history).role = "system"
         THEN AnthropicMessages(Tail(history))
         ELSE <<AnthropicEntry(Head(history))>> \o AnthropicMessages(Tail(history))

RECURSIVE AnthropicSystem(_, _)
\* AnthropicClient._convert_messages: system_message
AnthropicSystem(history, found) ==
    IF history = << >> THEN found
    ELSE AnthropicSystem(Tail(history),
                         IF Head(history).role = "system" THEN Head(history).content
                         ELSE found)

\* OpenAIClient._convert_messages, one message.  A key that is not set
\* is "absent".
OpenAIEntry(msg) ==
    CASE msg.role = "assistant" ->
           [role |-> "assistant",
            content |-> IF msg.content # "" THEN msg.content ELSE "absent",
            tool_calls |-> [k \in 1..Len(msg.tool_calls) |->
                              [id |-> msg.tool_calls[k].id, type |-> "function",
                               name |-> msg.tool_calls[k].name,
                               arguments |-> Dumps(msg.tool_calls[k].arguments)]],
            reasoning_details |-> IF msg.thinking # "" THEN msg.thinking ELSE "absent",
            tool_call_id |-> "absent"]
      [] msg.role = "tool" ->
           [role |-> "tool", content |-> msg.content, tool_calls |-> << >>,
            reasoning_details |-> "absent", tool_call_id |-> msg.tool_call_id]
      [] OTHER ->
           [role |-> msg.role, content |-> msg.content, tool_calls |-> << >>,
            reasoning_details |-> "absent", tool_call_id |-> "absent"]

\* OpenAIClient._convert_messages: api_messages
OpenAIMessages(history) == [k \in 1..Len(history) |-> OpenAIEntry(history[k])]

ConvertAnthropic ==
    /\ conv.anthropic.done = FALSE
    /\ conv' = [conv EXCEPT !.anthropic =
                    [done |-> TRUE, system |-> AnthropicSystem(conv.messages, "None"),
                     api_messages |-> AnthropicMessages(conv.messages)]]
    /\ UNCHANGED convFar

ConvertOpenAI ==
    /\ conv.openai.done = FALSE
    /\ conv' = [conv EXCEPT !.openai =
                    [done |-> TRUE, system |-> "None",
                     api_messages |-> OpenAIMessages(conv.messages)]]
    /\ UNCHANGED convFar

NotConverted == [done |-> FALSE, system |-> "None", api_messages |-> << >>]

ConvInit ==
    /\ Single /\ max_steps = 1 /\ NoInstances
    /\ \E h \in Histories :
         conv = [messages |-> h, anthropic |-> NotConverted, openai |-> NotConverted]

ConvNext ==
    \/ ConvertAnthropic
    \/ ConvertOpenAI

ConvSpec == ConvInit /\ [][ConvNext]_vars

NonSystem(seq) == SelectSeq(seq, LAMBDA e : e.role # "system")

\* The tool call of the nearest assistant message before position j that
\* has the id of the tool message at j: <<position, index>>, or << >>.
MatchingCall(h, j) ==
    LET before == {a \in 1..(j - 1) : h[a].role = "assistant"}
    IN IF before = {} THEN << >>
       ELSE LET a == CHOOSE x \in before : \A y \in before : y <= x
                ks == {k \in 1..Len(h[a].tool_calls) :
                          h[a].tool_calls[k].id = h[j].tool_call_id}
            IN IF ks = {} THEN << >>
               ELSE <<a, CHOOSE k \in ks : \A y \in ks : k <= y>>

\* The ids of the tool-use entries of an entry, in either format.
ToolUseIds(e, format) ==
    IF format = "anthropic"
    THEN LET uses == SelectSeq(e.blocks, LAMBDA b : b.type = "tool_use")
         IN [k \in 1..Len(uses) |-> uses[k].id]
    ELSE [k \in 1..Len(e.tool_calls) |-> e.tool_calls[k].id]

\* The id a tool-result entry carries, "none" if the entry is none.
ToolResultId(e, format) ==
    IF format = "anthropic"
    THEN IF e.role = "user" /\ Len(e.blocks) = 1 /\ e.blocks[1].type = "tool_result"
         THEN e.blocks[1].id ELSE "none"
    ELSE IF e.role = "tool" THEN e.tool_call_id ELSE "none"

\* Entry k of the output comes from message k of the history h.
ComesFrom(e, msg, format) ==
    /\ e.role = IF format = "anthropic" /\ msg.role = "tool" THEN "user" ELSE msg.role
    /\ msg.role = "user" => e.content = msg.content
    /\ msg.role = "assistant" => ToolUseIds(e, format) =
                                   [k \in 1..Len(msg.tool_calls) |-> msg.tool_calls[k].id]
    /\ msg.role = "tool" => ToolResultId(e, format) # "none"

Converted(h, out, format) ==
    LET msgs == NonSystem(h)
        es == NonSystem(out)
    IN /\ Len(es) = Len(msgs)
       /\ \A k \in 1..Len(msgs) : ComesFrom(es[k], msgs[k], format)
       /\ \A j \in 1..Len(msgs) :
             (msgs[j].role = "tool" /\ MatchingCall(msgs, j) # << >>) =>
                 ToolResultId(es[j], format) =
                     ToolUseIds(es[MatchingCall(msgs, j)[1]], format)[MatchingCall(msgs, j)[2]]

\* C40: both conversions keep the non-system messages in their order,
\* and every tool message becomes a tool-result entry with the id of the
\* tool-use entry made from the matching tool call of the preceding
\* assistant message.
C40_ConversionKeepsOrderAndIds ==
    /\ conv.anthropic.done => Converted(conv.messages, conv.anthropic.api_messages, "anthropic")
    /\ conv.openai.done => Converted(conv.messages, conv.openai.api_messages, "openai")

C40_Witness ==
    /\ conv.anthropic.done /\ conv.openai.done
    /\ Len(conv.messages) = 3
    /\ conv.messages[1].role = "system"
    /\ conv.messages[2].role = "assistant"
    /\ Len(conv.messages[2].tool_calls) = 2
    /\ conv.messages[3].role = "tool"
    /\ conv.messages[3].tool_call_id = "c2"
====
